---- MODULE Spec2Model ----
(***************************************************************************)
(* A model of the elmobd library (rzetterberg/elmobd):                     *)
(*   - the serial transport RealDevice (mutex, state, write/read/          *)
(*     processResult, RunCommand, Reset) with concurrent callers;          *)
(*   - the Device orchestrator (RunOBDCommand, CheckSupportedCommands,     *)
(*     NewSupportedCommands) over a RawDevice, with the command model.     *)
(* Strings of the program are TLA+ strings; a byte of the stream is a      *)
(* string of length one.                                                   *)
(***************************************************************************)
EXTENDS Integers, Sequences, FiniteSets, TLC

VARIABLES
    \* ---- RealDevice (src/unnamed/part_000) ----
    mutex,       \* dev.mutex: 0 when free, else the caller holding it
    state,       \* dev.state
    devInput,    \* dev.input
    devOutputs,  \* dev.outputs
    rx,          \* bytes the serial port holds for the next Read calls
    crashed,     \* TRUE once a goroutine panicked (the program is gone)
    \* ---- one record of locals per concurrent caller ----
    pc,          \* position of the caller inside RunCommand / Reset
    op,          \* "run" or "reset"
    cmd,         \* the command string of the call
    buf,         \* the bytes.Buffer of read()
    err,         \* the err local of RunCommand / Reset
    res,         \* what the call that just returned handed to its caller
    \* ---- history of what the stream did to the caller's exchange ----
    io,          \* [wfail, rfail, reads] per caller
    latched,     \* an exchange ended in error and no Reset succeeded since
    \* ---- Device orchestrator (src/device.go) ----
    heap,        \* the OBDCommand instances the caller owns, by instance id
    last,        \* the last RunOBDCommand call: [given, before, returned, err]
    csc,         \* the running CheckSupportedCommands call
    built,       \* the last PartSupported / SupportedCommands constructed directly
    call         \* the last call of another Device or library function: what it
                 \* was given, what it sent to the raw device, what it returned

tvars == <<mutex, state, devInput, devOutputs, rx, crashed,
           pc, op, cmd, buf, err, res, io, latched>>
dvars == <<heap, last, csc, built, call>>
vars == <<mutex, state, devInput, devOutputs, rx, crashed,
          pc, op, cmd, buf, err, res, io, latched,
          heap, last, csc, built, call>>

(***************************************************************************)
(* Bounds of the model                                                     *)
(***************************************************************************)
\* goroutines sharing the RealDevice
NumCallers == 2
\* probes after which a discovery loop is no longer followed
MaxProbes == 8
\* size of a short Read (a Read may also fill the whole buffer)
SmallChunk == 8

Callers == 1..NumCallers

Min(a, b) == IF a < b THEN a ELSE b

(***************************************************************************)
(* Strings (package strings, fmt)                                          *)
(***************************************************************************)
CR == "\r"

\* strings.HasPrefix
HasPrefix(s, prefix) ==
    /\ Len(s) >= Len(prefix)
    /\ SubSeq(s, 1, Len(prefix)) = prefix

\* the byte of s at position i, as a string
At(s, i) == SubSeq(s, i, i)

\* strings.Index from position i for a separator of one byte: 0 when absent
IndexFrom(s, sep, i) ==
    LET found == {p \in i..Len(s) : At(s, p) = sep}
    IN  IF found = {} THEN 0
        ELSE CHOOSE p \in found : \A q \in found : p <= q

\* strings.Split(s, sep) for a separator of one byte: the pieces between
\* consecutive separators, the empty ones included; piece is where the
\* current piece starts and i the byte looked at
RECURSIVE SplitFrom(_, _, _, _)
SplitFrom(s, sep, piece, i) ==
    IF i > Len(s) THEN <<SubSeq(s, piece, Len(s))>>
    ELSE IF At(s, i) = sep
    THEN <<SubSeq(s, piece, i - 1)>> \o SplitFrom(s, sep, i + 1, i + 1)
    ELSE SplitFrom(s, sep, piece, i + 1)

Split(s, sep) == SplitFrom(s, sep, 1, 1)

InCutset(ch, cutset) == \E p \in 1..Len(cutset) : At(cutset, p) = ch

\* strings.Trim(s, cutset): from the first to the last byte not in the cutset
Trim(s, cutset) ==
    LET kept == {p \in 1..Len(s) : ~InCutset(At(s, p), cutset)}
    IN  IF kept = {} THEN ""
        ELSE SubSeq(s, CHOOSE p \in kept : \A q \in kept : p <= q,
                       CHOOSE p \in kept : \A q \in kept : p >= q)

(***************************************************************************)
(* Errors: nil, or a kind with the two values the message formats          *)
(***************************************************************************)
Nil == [kind |-> "nil", a |-> "", b |-> ""]
Err(kind, a, b) == [kind |-> kind, a |-> a, b |-> b]
IsErr(e) == e.kind # "nil"

(***************************************************************************)
(* RealDevice                                                              *)
(***************************************************************************)
deviceReady == "ready"
deviceBusy == "busy"
deviceError == "error"

\* the size of the chunk one serialPort.Read call fills
ReadBufSize == 128

\* processResult: the lines of the response without the prompt; the first
\* must be the echo of dev.input, the others are trimmed and the empty ones
\* dropped.  set = FALSE: dev.outputs is left as it was.
TrimmedParts(parts) ==
    LET tmp == [p \in 1..Len(parts) |-> Trim(parts[p], "\r ")]
        kept == {p \in 1..Len(parts) : tmp[p] # ""}
    IN  [k \in 1..Cardinality(kept) |->
            tmp[CHOOSE p \in kept : Cardinality({q \in kept : q < p}) = k - 1]]

KeepEchoLine(result, input) ==
    LET parts == Split(result, CR)
        trimmedParts == TrimmedParts(parts)
    IN  IF parts[1] # input
        THEN [err |-> Err("echo", input, parts[1]), set |-> FALSE, outputs |-> <<>>]
        ELSE IF Len(trimmedParts) < 1
        THEN [err |-> Err("empty", "", ""), set |-> FALSE, outputs |-> <<>>]
        ELSE [err |-> Nil, set |-> TRUE, outputs |-> trimmedParts]

\* a line processing that accepts a response with no line after the echo
AcceptNoPayload(result, input) ==
    LET parts == Split(result, CR)
        trimmedParts == TrimmedParts(Tail(parts))
    IN  IF parts[1] # input
        THEN [err |-> Err("echo", input, parts[1]), set |-> FALSE, outputs |-> <<>>]
        ELSE [err |-> Nil, set |-> TRUE, outputs |-> trimmedParts]

processResult(result, input) ==
    LET parts == Split(result, CR)
        trimmedParts == TrimmedParts(Tail(parts))
    IN  IF parts[1] # input
        THEN [err |-> Err("echo", input, parts[1]), set |-> FALSE, outputs |-> <<>>]
        ELSE IF Len(trimmedParts) < 1
        THEN [err |-> Err("empty", "", ""), set |-> FALSE, outputs |-> <<>>]
        ELSE [err |-> Nil, set |-> TRUE, outputs |-> trimmedParts]

\* a banner check that looks at the first line only
BannerOnFirstLine(outputs) ==
    IF ~HasPrefix(outputs[1], "ELM327")
    THEN Err("banner", "ELM327", outputs[1])
    ELSE Nil

\* the banner check of Reset on dev.outputs (non-empty after a good read)
ResetBanner(outputs) ==
    IF ~(HasPrefix(outputs[1], "ELM327")
         \/ (Len(outputs) > 1 /\ HasPrefix(outputs[2], "ELM327")))
    THEN Err("banner",
             "ELM327",
             IF Len(outputs) > 1 THEN outputs[1] \o " " \o outputs[2]
             ELSE outputs[1])
    ELSE Nil

\* What the device at the other end of the stream may answer to a write.
RunCommands == {"AT@1"}
AtReplies(input) ==
    { input \o "\rOK\r\r>",
      input \o "\r \r>",
      "?\rOK\r>",
      input \o "\r\rELM327\r>",
      input \o "\rOK\rELM327\r>" }

\* the bytes an adapter may answer an OBD request "MMPPn" with: the echo,
\* then a frame of one, two or four data bytes, a status line, a transient
\* line before the frame, a line that is no hex, or no echo at all
ObdReplies(input) ==
    LET head == "4" \o At(input, 2) \o " " \o SubSeq(input, 3, 4)
    IN  { input \o "\r" \o head \o " 4F\r\r>",
          input \o "\r" \o head \o " 03 00\r\r>",
          input \o "\r" \o head \o " 00 00 00 01\r\r>",
          input \o "\rNO DATA\r\r>",
          input \o "\rSEARCHING...\r" \o head \o " 4F\r\r>",
          input \o "\r" \o head \o " 0G\r\r>",
          "?\r>" }

DeviceReplies(input) ==
    IF HasPrefix(input, "0") THEN ObdReplies(input) ELSE AtReplies(input)

\* How many bytes a Read call may give when `avail` are waiting: a short
\* piece or all of them, never more than the chunk holds.
ChunkSizes(avail) ==
    {n \in {Min(SmallChunk, avail), Min(ReadBufSize, avail)} : n >= 1}

NoIO == [wfail |-> FALSE, rfail |-> FALSE, reads |-> FALSE]
NoResult == [op |-> "none", error |-> Nil, outputs |-> <<>>]

\* The state NewRealDevice leaves behind when it returns a device: its Reset
\* succeeded, nobody holds the mutex.
InitTransport ==
    /\ mutex = 0
    /\ state = deviceReady
    /\ devInput = "ATZ"
    /\ devOutputs = <<"ELM327">>
    /\ rx = ""
    /\ crashed = FALSE
    /\ pc = [c \in Callers |-> "idle"]
    /\ op = [c \in Callers |-> "run"]
    /\ cmd = [c \in Callers |-> ""]
    /\ buf = [c \in Callers |-> ""]
    /\ err = [c \in Callers |-> Nil]
    /\ res = NoResult
    /\ io = [c \in Callers |-> NoIO]
    /\ latched = FALSE

\* A caller enters RunCommand(command) / Reset(): the locals are fresh.
Enter(c, o, command) ==
    /\ ~crashed
    /\ pc[c] = "idle"
    /\ pc' = [pc EXCEPT ![c] = "lock"]
    /\ op' = [op EXCEPT ![c] = o]
    /\ cmd' = [cmd EXCEPT ![c] = command]
    /\ res' = NoResult
    /\ UNCHANGED <<mutex, state, devInput, devOutputs, rx, crashed, buf, err,
                   io, latched>>
    /\ UNCHANGED dvars

RunCommand(c, command) == Enter(c, "run", command)

Reset(c) == Enter(c, "reset", "ATZ")

\* dev.mutex.Lock(); dev.state = deviceBusy
LockNoWait(c) ==
    /\ ~crashed
    /\ pc[c] = "lock"
    /\ mutex' = c
    /\ state' = deviceBusy
    /\ pc' = [pc EXCEPT ![c] = IF op[c] = "reset" THEN "flush" ELSE "write"]
    /\ res' = NoResult
    /\ UNCHANGED <<devInput, devOutputs, rx, crashed, op, cmd, buf, err,
                   io, latched>>
    /\ UNCHANGED dvars

LockNoBusy(c) ==
    /\ ~crashed
    /\ pc[c] = "lock"
    /\ mutex = 0
    /\ mutex' = c
    /\ pc' = [pc EXCEPT ![c] = IF op[c] = "reset" THEN "flush" ELSE "write"]
    /\ res' = NoResult
    /\ UNCHANGED <<state, devInput, devOutputs, rx, crashed, op, cmd, buf, err, io, latched>>
    /\ UNCHANGED dvars

Lock(c) ==
    /\ ~crashed
    /\ pc[c] = "lock"
    /\ mutex = 0
    /\ mutex' = c
    /\ state' = deviceBusy
    /\ pc' = [pc EXCEPT ![c] = IF op[c] = "reset" THEN "flush" ELSE "write"]
    /\ res' = NoResult
    /\ UNCHANGED <<devInput, devOutputs, rx, crashed, op, cmd, buf, err,
                   io, latched>>
    /\ UNCHANGED dvars

\* Reset: err = dev.serialPort.Flush(); a failure goes to out
Flush(c) ==
    /\ ~crashed
    /\ pc[c] = "flush"
    /\ \E ok \in BOOLEAN :
         IF ok
         THEN /\ rx' = ""
              /\ pc' = [pc EXCEPT ![c] = "write"]
              /\ err' = err
         ELSE /\ rx' = rx
              /\ pc' = [pc EXCEPT ![c] = "out"]
              /\ err' = [err EXCEPT ![c] = Err("flush", "", "")]
    /\ res' = NoResult
    /\ UNCHANGED <<mutex, state, devInput, devOutputs, crashed, op, cmd, buf, io, latched>>
    /\ UNCHANGED dvars

\* dev.write(input): dev.input is cleared, then set when the port took the
\* bytes; the device then answers.  A failed write goes to out.
write(c) ==
    /\ ~crashed
    /\ pc[c] = "write"
    /\ \E ok \in BOOLEAN :
         IF ok
         THEN /\ devInput' = cmd[c]
              /\ \E reply \in DeviceReplies(cmd[c]) : rx' = rx \o reply
              /\ pc' = [pc EXCEPT ![c] = "read"]
              /\ err' = err
              /\ io' = io
         ELSE /\ devInput' = ""
              /\ rx' = rx
              /\ pc' = [pc EXCEPT ![c] = "out"]
              /\ err' = [err EXCEPT ![c] = Err("write", "", "")]
              /\ io' = [io EXCEPT ![c].wfail = TRUE]
    /\ res' = NoResult
    /\ UNCHANGED <<mutex, state, devOutputs, crashed, op, cmd, buf,
                   latched>>
    /\ UNCHANGED dvars

\* One turn of the poll loop of dev.read(): a serialPort.Read into a chunk.
\*  - Read fails: dev.outputs is emptied and the error returned;
\*  - Read gives no byte and no error: tmp[n-1] is tmp[-1], a run-time panic;
\*  - Read gives n bytes: they are appended; when the last one is the prompt
\*    the buffer loses it and goes to processResult (and, in Reset, to the
\*    banner check).
read(c) ==
    /\ ~crashed
    /\ pc[c] = "read"
    /\ \/ /\ devOutputs' = <<>>
          /\ err' = [err EXCEPT ![c] = Err("read", "", "")]
          /\ pc' = [pc EXCEPT ![c] = "out"]
          /\ io' = [io EXCEPT ![c].rfail = TRUE, ![c].reads = TRUE]
          /\ UNCHANGED <<rx, buf, crashed>>
       \/ /\ crashed' = TRUE
          /\ pc' = [pc EXCEPT ![c] = "panic"]
          /\ io' = [io EXCEPT ![c].reads = TRUE]
          /\ UNCHANGED <<rx, buf, err, devOutputs>>
       \/ \E n \in ChunkSizes(Len(rx)) :
            LET chunk == SubSeq(rx, 1, n)
                buffer == buf[c] \o chunk
            IN  /\ rx' = SubSeq(rx, n + 1, Len(rx))
                /\ io' = [io EXCEPT ![c].reads = TRUE]
                /\ crashed' = crashed
                /\ IF SubSeq(chunk, n, n) = ">"
                   THEN LET truncated == SubSeq(buffer, 1, Len(buffer) - 1)
                            r == processResult(truncated, devInput)
                            outs == IF r.set THEN r.outputs ELSE devOutputs
                        IN  /\ buf' = [buf EXCEPT ![c] = truncated]
                            /\ devOutputs' = outs
                            /\ err' = [err EXCEPT ![c] =
                                         IF IsErr(r.err) \/ op[c] = "run"
                                         THEN r.err
                                         ELSE ResetBanner(outs)]
                            /\ pc' = [pc EXCEPT ![c] = "out"]
                   ELSE /\ buf' = [buf EXCEPT ![c] = buffer]
                        /\ UNCHANGED <<devOutputs, err, pc>>
    /\ res' = NoResult
    /\ UNCHANGED <<mutex, state, devInput, op, cmd, latched>>
    /\ UNCHANGED dvars

\* out: on an error a Flush of the port (what was received and not read is
\* discarded) and state = deviceError, else state = deviceReady; then
\* dev.mutex.Unlock()
OutAlwaysReady(c) ==
    /\ ~crashed
    /\ pc[c] = "out"
    /\ rx' = IF IsErr(err[c]) THEN "" ELSE rx
    /\ state' = deviceReady
    /\ mutex' = 0
    /\ pc' = [pc EXCEPT ![c] = "ret"]
    /\ latched' = IF IsErr(err[c]) THEN TRUE
                  ELSE IF op[c] = "reset" THEN FALSE ELSE latched
    /\ buf' = [buf EXCEPT ![c] = ""]
    /\ io' = [io EXCEPT ![c] = NoIO]
    /\ res' = NoResult
    /\ UNCHANGED <<devInput, devOutputs, crashed, op, cmd, err>>
    /\ UNCHANGED dvars

\* an exit that returns on an error without releasing the mutex
OutWithoutUnlock(c) ==
    /\ ~crashed
    /\ pc[c] = "out"
    /\ rx' = IF IsErr(err[c]) THEN "" ELSE rx
    /\ state' = IF IsErr(err[c]) THEN deviceError ELSE deviceReady
    /\ mutex' = IF IsErr(err[c]) THEN mutex ELSE 0
    /\ pc' = [pc EXCEPT ![c] = "ret"]
    /\ latched' = IF IsErr(err[c]) THEN TRUE
                  ELSE IF op[c] = "reset" THEN FALSE ELSE latched
    /\ buf' = [buf EXCEPT ![c] = ""]
    /\ io' = [io EXCEPT ![c] = NoIO]
    /\ res' = NoResult
    /\ UNCHANGED <<devInput, devOutputs, crashed, op, cmd, err>>
    /\ UNCHANGED dvars

Out(c) ==
    /\ ~crashed
    /\ pc[c] = "out"
    /\ rx' = IF IsErr(err[c]) THEN "" ELSE rx
    /\ state' = IF IsErr(err[c]) THEN deviceError ELSE deviceReady
    /\ mutex' = 0
    /\ pc' = [pc EXCEPT ![c] = "ret"]
    /\ latched' = IF IsErr(err[c]) THEN TRUE
                  ELSE IF op[c] = "reset" THEN FALSE ELSE latched
    /\ buf' = [buf EXCEPT ![c] = ""]
    /\ io' = [io EXCEPT ![c] = NoIO]
    /\ res' = NoResult
    /\ UNCHANGED <<devInput, devOutputs, crashed, op, cmd, err>>
    /\ UNCHANGED dvars

\* after the Unlock: RunCommand fills result.error and result.outputs (from
\* dev.outputs as it is now) and returns; Reset returns err.  The caller is
\* then free to call again.
Return(c) ==
    /\ ~crashed
    /\ pc[c] = "ret"
    /\ res' = [op |-> op[c],
                error |-> err[c],
                outputs |-> IF op[c] = "run" THEN devOutputs ELSE <<>>]
    /\ pc' = [pc EXCEPT ![c] = "idle"]
    /\ op' = [op EXCEPT ![c] = "run"]
    /\ cmd' = [cmd EXCEPT ![c] = ""]
    /\ err' = [err EXCEPT ![c] = Nil]
    /\ UNCHANGED <<mutex, state, devInput, devOutputs, rx, crashed, buf, io,
                   latched>>
    /\ UNCHANGED dvars

\* no RunOBDCommand call made yet
NoCall == [given |-> 0, before |-> <<>>, returned |-> 0, err |-> Nil]

\* no table: the nil *SupportedCommands
NilTable == [nil |-> TRUE, parts |-> <<>>]

\* CheckSupportedCommands not running
IdleDiscovery ==
    [pc |-> "idle", index |-> 1, result |-> <<>>, probes |-> <<>>,
     ret |-> NilTable, err |-> Nil]

\* nothing constructed
NothingBuilt == [call |-> "none", arg |-> <<>>, parts |-> <<>>]

\* no other function called yet
NoneCalled == [fn |-> "none"]

InitIdleDevice ==
    /\ call = NoneCalled
    /\ heap = <<>>
    /\ last = NoCall
    /\ csc = IdleDiscovery
    /\ built = NothingBuilt

Init == InitTransport /\ InitIdleDevice

Next ==
    \E c \in Callers :
        \/ \E command \in RunCommands : RunCommand(c, command)
        \/ Reset(c)
        \/ Lock(c)
        \/ Flush(c)
        \/ write(c)
        \/ read(c)
        \/ Out(c)
        \/ Return(c)

Spec == Init /\ [][Next]_vars

\* The callers as the scheduler runs them: a goroutine inside RunCommand or
\* Reset goes on with its next statement, a Read of the port returns (with
\* bytes or, after ReadTimeout, without), and a goroutine blocked in
\* mutex.Lock() is not passed over for ever (sync.Mutex hands the mutex to
\* a waiter that has been starving).  Nothing makes a caller call.
Fairness ==
    \A c \in Callers :
        /\ SF_vars(Lock(c))
        /\ WF_vars(Flush(c))
        /\ WF_vars(write(c))
        /\ WF_vars(read(c))
        /\ WF_vars(Out(c))
        /\ WF_vars(Return(c))

LiveSpec == Init /\ [][Next]_vars /\ Fairness

\* the RealDevice used by one goroutine only
SingleCaller == 1

NextSingle ==
    \/ \E command \in RunCommands : RunCommand(SingleCaller, command)
    \/ Reset(SingleCaller)
    \/ Lock(SingleCaller)
    \/ Flush(SingleCaller)
    \/ write(SingleCaller)
    \/ read(SingleCaller)
    \/ Out(SingleCaller)
    \/ Return(SingleCaller)

SingleSpec == Init /\ [][NextSingle]_vars

(***************************************************************************)
(* fmt.Sprintf verbs and strconv.ParseUint                                 *)
(***************************************************************************)
UpperDigits == "0123456789ABCDEF"
LowerDigits == "0123456789abcdef"

\* %X of a value below 16
HexDigit(n) == SubSeq(UpperDigits, n + 1, n + 1)

\* %02X of a byte
Sprintf02X(b) == HexDigit(b \div 16) \o HexDigit(b % 16)

\* %1X of a byte: no padding, no truncation
Sprintf1X(b) == IF b < 16 THEN HexDigit(b) ELSE Sprintf02X(b)

\* the hex digits of either case with their values
DigitValues ==
    [ch \in {At(UpperDigits, v) : v \in 1..16}
                \cup {At(LowerDigits, v) : v \in 1..16} |->
        CHOOSE v \in 0..15 : At(UpperDigits, v + 1) = ch
                                \/ At(LowerDigits, v + 1) = ch]

\* the value of a hex digit, -1 for any other byte
DigitValue(ch) == IF ch \in DOMAIN DigitValues THEN DigitValues[ch] ELSE -1

\* strconv.ParseUint(lit, 16, 8): -1 for a syntax or a range error (an empty
\* literal, a byte that is no hex digit, a value above 255)
ParseUint(lit) ==
    LET n == Len(lit)
    IN  IF n = 0 \/ \E k \in 1..n : DigitValue(At(lit, k)) < 0 THEN -1
        ELSE IF \E k \in 1..(n - 2) : DigitValue(At(lit, k)) # 0 THEN -1
        ELSE IF n = 1 THEN DigitValue(At(lit, 1))
        ELSE DigitValue(At(lit, n - 1)) * 16 + DigitValue(At(lit, n))

(***************************************************************************)
(* Utilities (src/utils.go)                                                *)
(***************************************************************************)
\* HexLitsToBytes(literals): a literal that has not 2 bytes is passed over,
\* one that ParseUint rejects ends the call with its error; what is left of
\* the slice is converted once, bound as the member of a one-element set
RECURSIVE HexLitsToBytes(_)
HexLitsToBytes(literals) ==
    IF literals = <<>> THEN [result |-> <<>>, err |-> Nil]
    ELSE IF Len(Head(literals)) # 2 THEN HexLitsToBytes(Tail(literals))
    ELSE IF ParseUint(Head(literals)) < 0
    THEN [result |-> <<>>, err |-> Err("parse", "", Head(literals))]
    ELSE CHOOSE out \in
            { IF IsErr(rest.err) THEN rest
              ELSE [result |-> <<ParseUint(Head(literals))>> \o rest.result,
                    err |-> Nil] :
                rest \in {HexLitsToBytes(Tail(literals))} } : TRUE


(***************************************************************************)
(* Commands (src/unnamed/part_002)                                         *)
(***************************************************************************)
\* Unsigned integers of 32 and 64 bits are kept as their bytes, the most
\* significant first; a conversion to a narrower type keeps the low bytes.
Zero64 == <<0, 0, 0, 0, 0, 0, 0, 0>>
Zero32 == <<0, 0, 0, 0>>

\* a conversion that takes the first byte as the lowest
BytesLowestFirst(bytes) ==
    LET amount == Len(bytes)
    IN  IF amount > 8
        THEN [res |-> Zero64, err |-> Err("bytes", "8", ToString(amount))]
        ELSE [res |-> [j \in 1..8 |->
                          IF 8 - j < amount THEN bytes[(8 - j) + 1] ELSE 0],
              err |-> Nil]

\* BytesToUint64(bytes): the byte bytes[amount-(i+1)] is shifted left by i*8
\* bits and or-ed into res, for every i; byte j of res (the first being the
\* highest) is the one shifted by (8-j)*8 bits
BytesToUint64(bytes) ==
    LET amount == Len(bytes)
    IN  IF amount > 8
        THEN [res |-> Zero64, err |-> Err("bytes", "8", ToString(amount))]
        ELSE [res |-> [j \in 1..8 |->
                          IF 8 - j < amount THEN bytes[amount - (8 - j)] ELSE 0],
              err |-> Nil]

SERVICE_01_ID == 1
SERVICE_04_ID == 4
PartRange == 32

\* an OBDCommand instance: the baseCommand fields, the value holder and (for
\* a PartSupported) the index; addr tells instances apart
Command(addr, kind, modeId, parameterID, dataWidth, key, index, value) ==
    [addr |-> addr, kind |-> kind, modeId |-> modeId,
     parameterID |-> parameterID, dataWidth |-> dataWidth, key |-> key,
     index |-> index, Value |-> value]

NoClamp(addr, index) ==
    Command(addr, "PartSupported", SERVICE_01_ID,
            ((index - 1) * PartRange) % 256, 4,
            "supported_commands_part" \o ToString(index), index, Zero32)

NewPartSupported(addr, index) ==
    LET i == IF index < 1 THEN 1 ELSE IF index > 7 THEN 7 ELSE index
    IN  Command(addr, "PartSupported", SERVICE_01_ID,
                ((i - 1) * PartRange) % 256, 4,
                "supported_commands_part" \o ToString(i), i, Zero32)

NewMonitorStatus(addr) ==
    Command(addr, "MonitorStatus", SERVICE_01_ID, 1, 4, "monitor_status", 0,
            [MilActive |-> FALSE, DtcAmount |-> 0])

NewCoolantTemperature(addr) ==
    Command(addr, "CoolantTemperature", SERVICE_01_ID, 5, 1,
            "coolant_temperature", 0, 0)

\* a float32 value is kept as the fraction n/d the code computes
NewEngineRPM(addr) ==
    Command(addr, "EngineRPM", SERVICE_01_ID, 12, 2, "engine_rpm", 0,
            [n |-> 0, d |-> 4])

NewTimingAdvance(addr) ==
    Command(addr, "TimingAdvance", SERVICE_01_ID, 14, 1, "timing_advance", 0,
            [n |-> 0, d |-> 1])

NewIntakeAirTemperature(addr) ==
    Command(addr, "IntakeAirTemperature", SERVICE_01_ID, 15, 1,
            "intake_air_temperature", 0, 0)

NewAmbientTemperature(addr) ==
    Command(addr, "AmbientTemperature", SERVICE_01_ID, 70, 1,
            "ambient_temperature", 0, 0)

NewEngineOilTemperature(addr) ==
    Command(addr, "EngineOilTemperature", SERVICE_01_ID, 92, 1,
            "engine_oil_temperature", 0, 0)

NewClearTroubleCodes(addr) ==
    Command(addr, "ClearTroubleCodes", SERVICE_04_ID, 0, 0,
            "clear_trouble_codes", 0, "")

\* a ToCommand that rounds the number of lines down
ToCommandRoundingDown(c) ==
    Sprintf02X(c.modeId) \o Sprintf02X(c.parameterID)
        \o Sprintf1X(c.dataWidth \div 4)

\* baseCommand.ToCommand: "%02X%02X%1X" of mode, PID and ceil(width / 4)
ToCommand(c) ==
    Sprintf02X(c.modeId) \o Sprintf02X(c.parameterID)
        \o Sprintf1X((c.dataWidth + 3) \div 4)

\* PartSupported.SupportsNextPart: part.Value & 1
NextPartFromTopBit(part) == part.Value[1] \div 128 = 1

SupportsNextPart(part) == part.Value[4] % 2 = 1

\* (value >> shift) & 1 on a uint32 kept as four bytes, the first the highest;
\* a shift by 32 bits or more leaves nothing (a negative `shift` stands for
\* the difference of two uint32 that wrapped around)
BitLowByteFirst(value, shift) ==
    IF shift < 0 \/ shift >= 32 THEN 0
    ELSE (value[1 + (shift \div 8)] \div (2 ^ (shift % 8))) % 2

ShiftedBit(value, shift) ==
    IF shift < 0 \/ shift >= 32 THEN 0
    ELSE (value[4 - (shift \div 8)] \div (2 ^ (shift % 8))) % 2

\* PartSupported.PIDInRange(comparePID); the products and sums are bytes
PIDInRange(part, comparePID) ==
    LET endPID == (part.index * PartRange) % 256
        startPID == (((endPID - PartRange) % 256) + 1) % 256
    IN  startPID <= comparePID /\ comparePID <= endPID

\* a SupportsPID that takes bit 32 - PID whatever the part is
SupportsPIDOfPartOne(part, comparePID) ==
    IF ~PIDInRange(part, comparePID) THEN FALSE
    ELSE ShiftedBit(part.Value, 32 - comparePID) = 1

\* PartSupported.SupportsPID(comparePID)
SupportsPID(part, comparePID) ==
    IF ~PIDInRange(part, comparePID) THEN FALSE
    ELSE LET offset == (32 * part.index) % 256
             bitsToShift == offset - comparePID
         IN  ShiftedBit(part.Value, bitsToShift) = 1

\* PartSupported.CommandInRange(cmd), PartSupported.SupportsCommand(cmd)
CommandInRange(part, c) == PIDInRange(part, c.parameterID)

SupportsCommand(part, c) == SupportsPID(part, c.parameterID)

(***************************************************************************)
(* Result (src/device.go)                                                  *)
(***************************************************************************)
NilResult == [nil |-> TRUE, value |-> <<>>]

ParseLiterals(literals) ==
    [k \in 1..Len(literals) |-> ParseUint(literals[k])]

AnyBad(literals) == \E k \in 1..Len(literals) : ParseUint(literals[k]) < 0

\* the first literal ParseUint refuses
FirstBadLiteral(literals) ==
    literals[CHOOSE k \in 1..Len(literals) :
                /\ ParseUint(literals[k]) < 0
                /\ \A j \in 1..(k - 1) : ParseUint(literals[j]) >= 0]

\* NewResult(rawLine)
NewResult(rawLine) ==
    LET literals == Split(rawLine, " ")
    IN  IF Len(literals) < 3
        THEN [err |-> Err("literals", "3", rawLine), result |-> NilResult]
        ELSE IF AnyBad(literals)
        THEN [err |-> Err("parse", "", FirstBadLiteral(literals)),
              result |-> NilResult]
        ELSE [err |-> Nil,
              result |-> [nil |-> FALSE, value |-> ParseLiterals(literals)]]

\* res.value[i] on a slice that has no index i: the run-time panics
IndexPanic(i, length) ==
    Err("panic", "index out of range", ToString(i) \o "/" \o ToString(length))

\* Result.Validate(cmd); the sums are sums of bytes
Validate(result, c) ==
    LET valueLen == Len(result.value)
        expLen == (c.dataWidth + 2) % 256
        modeResp == (c.modeId + 64) % 256
    IN  IF valueLen # expLen
        THEN Err("length", ToString(expLen), ToString(valueLen))
        ELSE IF valueLen < 1
        THEN IndexPanic(0, valueLen)
        ELSE IF result.value[1] # modeResp
        THEN Err("mode", Sprintf02X(modeResp), Sprintf02X(result.value[1]))
        ELSE IF valueLen < 2
        THEN IndexPanic(1, valueLen)
        ELSE IF result.value[2] # c.parameterID
        THEN Err("parameter", Sprintf02X(c.parameterID),
                 Sprintf02X(result.value[2]))
        ELSE Nil

\* the uint64 made of payload[amount-(i+1)] << (i*8): a shift by 64 bits or
\* more leaves nothing, so only the last eight bytes count
Uint64Of(payload) ==
    LET n == Len(payload)
        low == IF n > 8 THEN SubSeq(payload, n - 7, n) ELSE payload
    IN  SubSeq(Zero64, 1, 8 - Len(low)) \o low

Uint32(w) == SubSeq(w, 5, 8)
Uint16(w) == w[7] * 256 + w[8]
Uint8(w) == w[8]

\* a helper that accepts every payload of at most expAmount bytes
payloadUpTo(result, expAmount) ==
    LET payload == SubSeq(result.value, 3, Len(result.value))
        amount == Len(payload)
    IN  IF amount > expAmount
        THEN [err |-> Err("payload", ToString(expAmount), ToString(amount)),
              v |-> Zero64]
        ELSE [err |-> Nil, v |-> Uint64Of(payload)]

\* Result.payloadAsUInt(expAmount)
payloadAsUInt(result, expAmount) ==
    LET payload == SubSeq(result.value, 3, Len(result.value))
        amount == Len(payload)
    IN  IF amount # expAmount
        THEN [err |-> Err("payload", ToString(expAmount), ToString(amount)),
              v |-> Zero64]
        ELSE [err |-> Nil, v |-> Uint64Of(payload)]

PayloadAsUInt64(result) == payloadAsUInt(result, 8)

PayloadAsUInt32(result) ==
    LET p == payloadAsUInt(result, 4)
    IN  IF IsErr(p.err) THEN [err |-> p.err, v |-> Zero32]
        ELSE [err |-> Nil, v |-> Uint32(p.v)]

PayloadAsUInt16(result) ==
    LET p == payloadAsUInt(result, 2)
    IN  IF IsErr(p.err) THEN [err |-> p.err, v |-> 0]
        ELSE [err |-> Nil, v |-> Uint16(p.v)]

PayloadAsByte(result) ==
    LET p == payloadAsUInt(result, 1)
    IN  IF IsErr(p.err) THEN [err |-> p.err, v |-> 0]
        ELSE [err |-> Nil, v |-> Uint8(p.v)]

\* the commands whose SetValue is int(payload) - 40
TemperatureKinds ==
    {"CoolantTemperature", "IntakeAirTemperature", "AmbientTemperature",
     "EngineOilTemperature"}

\* a decoding that reads the payload byte as a signed one
TemperatureOfSignedByte(payload) ==
    (IF payload >= 128 THEN payload - 256 ELSE payload) - 40

\* cmd.Value = int(payload) - 40
Temperature(payload) == payload - 40

\* a decoding that halves the payload as a float: (payload - 128) / 2
TimingAdvanceOfHalves(payload) == [n |-> payload - 128, d |-> 2]

\* cmd.Value = float32(payload/2) - 64: the byte is halved as a byte, the
\* float32 of the quotient is exact
TimingAdvanceDegrees(payload) == [n |-> (payload \div 2) - 64, d |-> 1]

\* a decoding that reads the last byte of the payload
MonitorStatusOfLastByte(payload) ==
    [MilActive |-> (payload[Len(payload)] \div 128) % 2 = 1,
     DtcAmount |-> payload[Len(payload)] % 128]

\* cmd.MilActive = (payload[0] & 0x80) == 0x80 and
\* cmd.DtcAmount = byte(payload[0] & 0x7F)
MonitorStatusFields(payload) ==
    [MilActive |-> (payload[1] \div 128) % 2 = 1,
     DtcAmount |-> payload[1] % 128]

\* OBDCommand.SetValue(result), by the type of the command
SetValue(c, result) ==
    CASE c.kind = "PartSupported" ->
           LET p == PayloadAsUInt32(result)
           IN  IF IsErr(p.err) THEN [err |-> p.err, cmd |-> c]
               ELSE [err |-> Nil, cmd |-> [c EXCEPT !.Value = p.v]]
      [] c.kind = "MonitorStatus" ->
           LET payload == SubSeq(result.value, 3, Len(result.value))
           IN  IF Len(payload) # 4
               THEN [err |-> Err("payload", "4", ToString(Len(payload))),
                     cmd |-> c]
               ELSE [err |-> Nil,
                     cmd |-> [c EXCEPT !.Value = MonitorStatusFields(payload)]]
      [] c.kind \in TemperatureKinds ->
           LET p == PayloadAsByte(result)
           IN  IF IsErr(p.err) THEN [err |-> p.err, cmd |-> c]
               ELSE [err |-> Nil,
                     cmd |-> [c EXCEPT !.Value = Temperature(p.v)]]
      [] c.kind = "TimingAdvance" ->
           LET p == PayloadAsByte(result)
           IN  IF IsErr(p.err) THEN [err |-> p.err, cmd |-> c]
               ELSE [err |-> Nil,
                     cmd |-> [c EXCEPT !.Value = TimingAdvanceDegrees(p.v)]]
      [] c.kind = "EngineRPM" ->
           LET p == PayloadAsUInt16(result)
           IN  IF IsErr(p.err) THEN [err |-> p.err, cmd |-> c]
               ELSE [err |-> Nil,
                     cmd |-> [c EXCEPT !.Value = [n |-> p.v, d |-> 4]]]
      [] OTHER -> [err |-> Nil, cmd |-> c]

\* a scan that skips "SEARCHING" lines only
RECURSIVE ScanSkippingSearchingOnly(_)
ScanSkippingSearchingOnly(outputs) ==
    IF outputs = <<>> THEN [err |-> Nil, payload |-> ""]
    ELSE IF HasPrefix(Head(outputs), "UNABLE TO CONNECT")
    THEN [err |-> Err("unable", "", Head(outputs)), payload |-> ""]
    ELSE IF HasPrefix(Head(outputs), "NO DATA")
    THEN [err |-> Err("nodata", "", Head(outputs)), payload |-> ""]
    ELSE IF HasPrefix(Head(outputs), "SEARCHING")
    THEN ScanSkippingSearchingOnly(Tail(outputs))
    ELSE [err |-> Nil, payload |-> Head(outputs)]

\* parseOBDResponse(cmd, outputs): the first line that is no status and no
\* transient line is the payload
RECURSIVE ScanOutputs(_)
ScanOutputs(outputs) ==
    IF outputs = <<>> THEN [err |-> Nil, payload |-> ""]
    ELSE IF HasPrefix(Head(outputs), "UNABLE TO CONNECT")
    THEN [err |-> Err("unable", "", Head(outputs)), payload |-> ""]
    ELSE IF HasPrefix(Head(outputs), "NO DATA")
    THEN [err |-> Err("nodata", "", Head(outputs)), payload |-> ""]
    ELSE IF HasPrefix(Head(outputs), "SEARCHING")
    THEN ScanOutputs(Tail(outputs))
    ELSE IF HasPrefix(Head(outputs), "BUS INIT")
    THEN ScanOutputs(Tail(outputs))
    ELSE [err |-> Nil, payload |-> Head(outputs)]

parseOBDResponse(c, outputs) ==
    LET scan == ScanOutputs(outputs)
    IN  IF IsErr(scan.err) THEN [err |-> scan.err, result |-> NilResult]
        ELSE IF scan.payload = "" THEN [err |-> Nil, result |-> NilResult]
        ELSE NewResult(scan.payload)

\* Device.RunOBDCommand(cmd), given what rawDevice.RunCommand(cmd.ToCommand())
\* returned: the command (as it is after the call) and the error
SetValueBeforeValidate(c, rawRes) ==
    IF IsErr(rawRes.error) THEN [cmd |-> c, err |-> rawRes.error]
    ELSE LET parsed == parseOBDResponse(c, rawRes.outputs)
         IN  IF IsErr(parsed.err) THEN [cmd |-> c, err |-> parsed.err]
             ELSE IF parsed.result.nil THEN [cmd |-> c, err |-> Nil]
             ELSE LET set == SetValue(c, parsed.result)
                      valid == Validate(parsed.result, c)
                  IN  IF IsErr(set.err) THEN [cmd |-> set.cmd, err |-> set.err]
                      ELSE [cmd |-> set.cmd, err |-> valid]

RunOBDCommand(c, rawRes) ==
    IF IsErr(rawRes.error) THEN [cmd |-> c, err |-> rawRes.error]
    ELSE LET parsed == parseOBDResponse(c, rawRes.outputs)
         IN  IF IsErr(parsed.err) THEN [cmd |-> c, err |-> parsed.err]
             ELSE IF parsed.result.nil THEN [cmd |-> c, err |-> Nil]
             ELSE LET valid == Validate(parsed.result, c)
                  IN  IF IsErr(valid) THEN [cmd |-> c, err |-> valid]
                      ELSE LET set == SetValue(c, parsed.result)
                           IN  [cmd |-> set.cmd, err |-> set.err]

(***************************************************************************)
(* MockDevice (src/mockdevice.go)                                          *)
(***************************************************************************)
mockMode1Outputs(subcmd) ==
    IF HasPrefix(subcmd, "00") THEN <<"41 00 0C 10 00 00">>
    ELSE IF HasPrefix(subcmd, "20") THEN <<"41 20 00 00 00 00">>
    ELSE IF HasPrefix(subcmd, "40") THEN <<"41 40 00 00 00 00">>
    ELSE IF HasPrefix(subcmd, "60") THEN <<"41 60 00 00 00 00">>
    ELSE IF HasPrefix(subcmd, "80") THEN <<"41 80 00 00 00 00">>
    ELSE IF HasPrefix(subcmd, "01") THEN <<"41 01 FF 00 00 00">>
    ELSE IF HasPrefix(subcmd, "05") THEN <<"41 05 4F">>
    ELSE IF HasPrefix(subcmd, "06") THEN <<"41 06 02">>
    ELSE IF HasPrefix(subcmd, "0C") THEN <<"41 0C 03 00">>
    ELSE IF HasPrefix(subcmd, "2F") THEN <<"41 2F 6B">>
    ELSE IF HasPrefix(subcmd, "0D") THEN <<"41 0D 4B">>
    ELSE IF HasPrefix(subcmd, "31") THEN <<"41 31 02 0C">>
    ELSE IF HasPrefix(subcmd, "42") THEN <<"41 42 33 90">>
    ELSE IF HasPrefix(subcmd, "A6") THEN <<"41 A6 00 06 68 a0">>
    ELSE IF HasPrefix(subcmd, "46") THEN <<"41 46 3A">>
    ELSE IF HasPrefix(subcmd, "A4") THEN <<"41 A4 27 10 00 00">>
    ELSE <<"NOT SUPPORTED">>

mockOutputs(command) ==
    IF command = "ATSP0" THEN <<"OK">>
    ELSE IF command = "AT@1" THEN <<"OBDII by elm329@gmail.com">>
    ELSE IF command = "AT RV" THEN <<"12.1234">>
    ELSE IF HasPrefix(command, "01")
    THEN mockMode1Outputs(SubSeq(command, 3, Len(command)))
    ELSE <<"NOT SUPPORTED">>

\* MockDevice.RunCommand(command): a result that never fails
MockRunCommand(command) ==
    [op |-> "run", error |-> Nil, outputs |-> mockOutputs(command)]

(***************************************************************************)
(* What rawDevice.RunCommand may hand to RunOBDCommand: a failed exchange, *)
(* or the lines a device answered with.                                    *)
(***************************************************************************)
Ok(outputs) == [op |-> "run", error |-> Nil, outputs |-> outputs]

\* the text of a frame: the bytes as two-digit literals, blank-separated
RECURSIVE FrameText(_)
FrameText(bytes) ==
    IF bytes = <<>> THEN ""
    ELSE IF Len(bytes) = 1 THEN Sprintf02X(bytes[1])
    ELSE Sprintf02X(bytes[1]) \o " " \o FrameText(Tail(bytes))

\* payloads of a given width: all zero, all ones, only the last bit set
Payloads(width) ==
    IF width = 0 THEN {<<>>}
    ELSE { [k \in 1..width |-> 0], [k \in 1..width |-> 255],
           [k \in 1..width |-> IF k = width THEN 1 ELSE 0] }

Echo(c) == <<(c.modeId + 64) % 256, c.parameterID>>

RawResults(c) ==
    { [op |-> "run", error |-> Err("write", "", ""), outputs |-> <<>>],
      MockRunCommand(ToCommand(c)),
      Ok(<<"SEARCHING...">>),
      Ok(<<"NO DATA">>),
      Ok(<<"BUS INIT: ...", "UNABLE TO CONNECT">>),
      Ok(<<"41 0G 00 00">>),
      Ok(<<"44">>),
      Ok(<<FrameText(Echo(c) \o [k \in 1..(c.dataWidth + 1) |-> 255])>>),
      Ok(<<FrameText(<<127, c.parameterID>>
                        \o [k \in 1..c.dataWidth |-> 255])>>),
      Ok(<<FrameText(<<(c.modeId + 64) % 256, (c.parameterID + 1) % 256>>
                        \o [k \in 1..c.dataWidth |-> 255])>>),
      Ok(<<"SEARCHING...",
           FrameText(Echo(c) \o [k \in 1..c.dataWidth |-> 255])>>) }
    \cup { Ok(<<FrameText(Echo(c) \o payload)>>) :
                payload \in Payloads(c.dataWidth) }

(***************************************************************************)
(* Device.RunOBDCommand on command instances the caller holds              *)
(***************************************************************************)
\* command instances a caller holds
MaxCmds == 1

Constructors(addr) ==
    { NewPartSupported(addr, 1), NewMonitorStatus(addr),
      NewCoolantTemperature(addr), NewEngineRPM(addr),
      NewClearTroubleCodes(addr) }

\* the caller constructs a command
NewCommand ==
    /\ Len(heap) < MaxCmds
    /\ \E c \in Constructors(Len(heap) + 1) : heap' = Append(heap, c)
    /\ UNCHANGED <<last, csc, built, call>>
    /\ UNCHANGED tvars

\* dev.RunOBDCommand(heap[i]): one exchange, then parse, validate and decode
DoRunOBDCommand(i) ==
    /\ i \in 1..Len(heap)
    /\ \E rawRes \in RawResults(heap[i]) :
         LET r == RunOBDCommand(heap[i], rawRes)
         IN  /\ heap' = [heap EXCEPT ![r.cmd.addr] = r.cmd]
             /\ last' = [given |-> i, before |-> heap[i],
                         returned |-> r.cmd.addr, err |-> r.err]
    /\ UNCHANGED <<csc, built, call>>
    /\ UNCHANGED tvars

NextDevice ==
    \/ NewCommand
    \/ \E i \in 1..MaxCmds : DoRunOBDCommand(i)

DeviceSpec == Init /\ [][NextDevice]_vars

(***************************************************************************)
(* SupportedCommands: NewSupportedCommands, AddPart and the discovery loop *)
(* of Device.CheckSupportedCommands                                        *)
(***************************************************************************)
\* longest partValues slice handed to NewSupportedCommands
MaxPartValues == 8

Bytes == 0..255
\* 0x00000000, 0x00000001 and 0xBE1FA813
PartValues == {<<0, 0, 0, 0>>, <<0, 0, 0, 1>>, <<190, 31, 168, 19>>}

\* PartSupported.SetRawValue(val)
SetRawValue(part, val) == [part EXCEPT !.Value = val]

\* SupportedCommands.AddPart(part)
AddPart(parts, part) == Append(parts, part)

\* NewSupportedCommands(partValues): the index runs from 1, one step per value
RECURSIVE NewSupportedCommandsFrom(_, _, _)
NewSupportedCommandsFrom(partValues, index, parts) ==
    IF partValues = <<>> THEN parts
    ELSE NewSupportedCommandsFrom(
            Tail(partValues), (index + 1) % 256,
            Append(parts, SetRawValue(NewPartSupported(Len(parts) + 1, index),
                                      Head(partValues))))

NewSupportedCommands(partValues) ==
    NewSupportedCommandsFrom(partValues, 1, <<>>)

\* the table a caller holds: the *SupportedCommands with its parts
Table(parts) == [nil |-> FALSE, parts |-> parts]

\* SupportedCommands.GetPart(index): the part at that place of sc.parts
GetPart(sc, index) ==
    LET partsAmount == Len(sc.parts)
    IN  IF partsAmount = 0
        THEN [part |-> <<>>, err |-> Err("noparts", ToString(index), "")]
        ELSE IF index >= partsAmount % 256
        THEN [part |-> <<>>,
              err |-> Err("nopart", ToString(index), ToString(partsAmount))]
        ELSE [part |-> sc.parts[index + 1], err |-> Nil]

\* a lookup that divides the parameter ID itself
GetPartByPIDNoOffset(sc, pid) ==
    IF pid = 0 THEN GetPart(sc, 0) ELSE GetPart(sc, pid \div 32)

\* SupportedCommands.GetPartByPID(pid)
GetPartByPID(sc, pid) ==
    IF pid = 0 THEN GetPart(sc, 0) ELSE GetPart(sc, (pid - 1) \div 32)

\* SupportedCommands.IsSupported(cmd), by the parameter ID of cmd
IsSupported(sc, pid) ==
    IF pid = 0 THEN TRUE
    ELSE LET got == GetPartByPID(sc, pid)
         IN  IF IsErr(got.err) THEN FALSE ELSE SupportsPID(got.part, pid)

\* a filter that puts each supported command in front of the ones before it
RECURSIVE SupportedInFront(_, _)
SupportedInFront(sc, commands) ==
    IF commands = <<>> THEN [result |-> <<>>, sc |-> sc, commands |-> <<>>]
    ELSE CHOOSE out \in
            { [result |-> IF IsSupported(sc, Head(commands).parameterID)
                          THEN rest.result \o <<Head(commands)>>
                          ELSE rest.result,
               sc |-> rest.sc,
               commands |-> <<Head(commands)>> \o rest.commands] :
                rest \in {SupportedInFront(sc, Tail(commands))} } : TRUE

\* SupportedCommands.FilterSupported(commands): the result, and the table
\* and the commands as the call leaves them; the rest of the slice is
\* filtered once, bound as the member of a one-element set
RECURSIVE FilterSupported(_, _)
FilterSupported(sc, commands) ==
    IF commands = <<>> THEN [result |-> <<>>, sc |-> sc, commands |-> <<>>]
    ELSE CHOOSE out \in
            { [result |-> IF IsSupported(sc, Head(commands).parameterID)
                          THEN <<Head(commands)>> \o rest.result
                          ELSE rest.result,
               sc |-> rest.sc,
               commands |-> <<Head(commands)>> \o rest.commands] :
                rest \in {FilterSupported(sc, Tail(commands))} } : TRUE

RECURSIVE SeqsOf(_, _)
SeqsOf(S, n) ==
    IF n = 0 THEN {<<>>}
    ELSE LET shorter == SeqsOf(S, n - 1)
         IN  shorter \cup { Append(q, x) : q \in {t \in shorter : Len(t) = n - 1},
                                           x \in S }

\* a caller constructs one PartSupported
DoNewPartSupported ==
    /\ csc.pc = "idle" /\ built = NothingBuilt
    /\ \E index \in Bytes :
         built' = [call |-> "NewPartSupported", arg |-> index,
                   parts |-> <<NewPartSupported(1, index)>>]
    /\ UNCHANGED <<heap, last, csc, call>>
    /\ UNCHANGED tvars

\* a caller constructs a table from raw part values
DoNewSupportedCommands ==
    /\ csc.pc = "idle" /\ built = NothingBuilt
    /\ \E partValues \in SeqsOf(PartValues, MaxPartValues) :
         built' = [call |-> "NewSupportedCommands", arg |-> partValues,
                   parts |-> NewSupportedCommands(partValues)]
    /\ UNCHANGED <<heap, last, csc, call>>
    /\ UNCHANGED tvars

\* CheckSupportedCommands is entered: an empty table and index 1
CheckSupportedCommands ==
    /\ csc.pc \in {"idle", "done"}
    /\ csc' = [IdleDiscovery EXCEPT !.pc = "loop"]
    /\ built' = NothingBuilt
    /\ UNCHANGED <<heap, last, call>>
    /\ UNCHANGED tvars

\* one turn of the loop: a new part for the index, RunOBDCommand, then
\* return the error, or add the part and go on while SupportsNextPart
Probe ==
    /\ csc.pc = "loop"
    /\ Len(csc.probes) < MaxProbes
    /\ LET part == NewPartSupported(Len(csc.probes) + 1, csc.index)
           sent == [index |-> part.index, parameterID |-> part.parameterID,
                    dataWidth |-> part.dataWidth, text |-> ToCommand(part)]
       IN  \E rawRes \in RawResults(part) :
             LET r == RunOBDCommand(part, rawRes)
             IN  IF IsErr(r.err)
                 THEN csc' = [csc EXCEPT !.pc = "done",
                                         !.probes = Append(@, sent),
                                         !.ret = NilTable,
                                         !.err = r.err]
                 ELSE csc' = [csc EXCEPT
                                !.pc = IF SupportsNextPart(r.cmd)
                                       THEN "loop" ELSE "done",
                                !.probes = Append(@, sent),
                                !.result = AddPart(@, r.cmd),
                                !.ret = IF SupportsNextPart(r.cmd)
                                        THEN NilTable
                                        ELSE [nil |-> FALSE,
                                              parts |-> AddPart(csc.result,
                                                                r.cmd)]]
    /\ UNCHANGED <<heap, last, built, call>>
    /\ UNCHANGED tvars

NextDiscovery ==
    \/ DoNewPartSupported
    \/ DoNewSupportedCommands
    \/ CheckSupportedCommands
    \/ Probe

DiscoverySpec == Init /\ [][NextDiscovery]_vars

(***************************************************************************)
(* The other entry points of Device, each called once on a raw device that *)
(* answers the successive RunCommand calls with the results in replies     *)
(* (in RunManyOBDCommands: the k-th command with replies[k]).  Each        *)
(* returns, besides its results, the commands it sent.                     *)
(***************************************************************************)
MaxMany == 2

\* every way to answer the given commands, one result per command
RECURSIVE RepliesFor(_)
RepliesFor(commands) ==
    IF Len(commands) = 0 THEN {<<>>}
    ELSE { <<first>> \o rest : first \in RawResults(commands[1]),
                               rest \in RepliesFor(Tail(commands)) }

\* RunOBDCommand asking again when the answer is NO DATA
RunOBDCommandAgain(c, replies) ==
    LET r == RunOBDCommand(c, replies[1])
    IN  IF r.err.kind = "nodata" /\ Len(replies) > 1
        THEN LET again == RunOBDCommand(c, replies[2])
             IN  [sent |-> <<ToCommand(c), ToCommand(c)>>,
                  cmd |-> again.cmd, err |-> again.err]
        ELSE [sent |-> <<ToCommand(c)>>, cmd |-> r.cmd, err |-> r.err]

\* dev.RunOBDCommand(cmd) with the exchange it makes
RunOBDCommandOn(c, replies) ==
    LET r == RunOBDCommand(c, replies[1])
    IN  [sent |-> <<ToCommand(c)>>, cmd |-> r.cmd, err |-> r.err]

\* the loop of RunManyOBDCommands from command k on; cmds are the instances
\* as the calls so far left them.  r, the outcome of the k-th call, is bound
\* as the member of a one-element set so that it is computed once.
RECURSIVE RunManyFrom(_, _, _, _, _)
RunManyFrom(cmds, replies, k, result, sent) ==
    IF k > Len(cmds)
    THEN [result |-> result, err |-> Nil, sent |-> sent, cmds |-> cmds]
    ELSE CHOOSE out \in
            { IF IsErr(r.err)
              THEN [result |-> <<>>, err |-> r.err, sent |-> sent \o r.sent,
                    cmds |-> [cmds EXCEPT ![k] = r.cmd]]
              ELSE RunManyFrom([cmds EXCEPT ![k] = r.cmd], replies, k + 1,
                               Append(result, r.cmd), sent \o r.sent) :
                r \in {RunOBDCommandOn(cmds[k], <<replies[k]>>)} } : TRUE

\* the loop going on to the next command after a failure
RECURSIVE RunManySkippingFrom(_, _, _, _, _)
RunManySkippingFrom(cmds, replies, k, result, sent) ==
    IF k > Len(cmds)
    THEN [result |-> result, err |-> Nil, sent |-> sent, cmds |-> cmds]
    ELSE CHOOSE out \in
            { RunManySkippingFrom(
                [cmds EXCEPT ![k] = r.cmd], replies, k + 1,
                IF IsErr(r.err) THEN result ELSE Append(result, r.cmd),
                sent \o r.sent) :
                r \in {RunOBDCommandOn(cmds[k], <<replies[k]>>)} } : TRUE

RunManySkippingFailures(commands, replies) ==
    RunManySkippingFrom(commands, replies, 1, <<>>, <<>>)

RunManyOBDCommands(commands, replies) ==
    RunManyFrom(commands, replies, 1, <<>>, <<>>)

\* the command lists handed to RunManyOBDCommands: instance k at position k
ManyCommands ==
    UNION { [1..n -> {"CoolantTemperature", "EngineRPM"}] : n \in 0..MaxMany }

Instances(kinds) ==
    [k \in 1..Len(kinds) |->
        IF kinds[k] = "EngineRPM" THEN NewEngineRPM(k)
        ELSE NewCoolantTemperature(k)]

DoRunManyOBDCommands ==
    /\ call = NoneCalled
    /\ \E kinds \in ManyCommands :
         \E replies \in RepliesFor(Instances(kinds)) :
           \E r \in {RunManyOBDCommands(Instances(kinds), replies)} :
              call' = [fn |-> "RunManyOBDCommands",
                       commands |-> Instances(kinds), replies |-> replies,
                       sent |-> r.sent, result |-> r.result,
                       err |-> r.err, cmds |-> r.cmds]
    /\ UNCHANGED <<heap, last, csc, built>>
    /\ UNCHANGED tvars

\* what a raw device may return for an AT command
AtResults(command) ==
    { [op |-> "run", error |-> Err("write", "", ""), outputs |-> <<>>],
      MockRunCommand(command),
      Ok(<<"OK">>), Ok(<<"?">>), Ok(<<"12.6V">>), Ok(<<"ELM327 v1.5">>),
      Ok(<<"SEARCHING...", "OK">>) }

\* text is a plain decimal numeral: digits with at most one point among them.
\* strconv.ParseFloat accepts exactly these among the texts of AtResults.
IsDecimal(text) ==
    LET points == {k \in 1..Len(text) : At(text, k) = "."}
    IN  /\ Len(text) > Cardinality(points)
        /\ Cardinality(points) <= 1
        /\ \A k \in 1..Len(text) :
              At(text, k) = "." \/ At(text, k) \in {At("0123456789", d) : d \in 1..10}

\* Device.SetAutomaticProtocol()
SetAutomaticProtocol(replies) ==
    LET rawRes == replies[1]
    IN  IF IsErr(rawRes.error)
        THEN [sent |-> <<"ATSP0">>, err |-> rawRes.error]
        ELSE IF rawRes.outputs[1] # "OK"
        THEN [sent |-> <<"ATSP0">>, err |-> Err("ok", "OK", rawRes.outputs[1])]
        ELSE [sent |-> <<"ATSP0">>, err |-> Nil]

\* Device.GetVersion()
GetVersion(replies) ==
    LET rawRes == replies[1]
    IN  IF IsErr(rawRes.error)
        THEN [sent |-> <<"AT@1">>, err |-> rawRes.error, version |-> ""]
        ELSE [sent |-> <<"AT@1">>, err |-> Nil,
              version |-> Trim(rawRes.outputs[1], " ")]

\* Device.GetVoltage(): the voltage is the numeral without its last byte;
\* the float32 is kept as the numeral it was parsed from, -1 on failure
GetVoltage(replies) ==
    LET rawRes == replies[1]
        output == rawRes.outputs[1]
        numeral == SubSeq(output, 1, Len(output) - 1)
    IN  IF IsErr(rawRes.error)
        THEN [sent |-> <<"AT RV">>, err |-> rawRes.error, voltage |-> "-1"]
        ELSE IF ~IsDecimal(numeral)
        THEN [sent |-> <<"AT RV">>, err |-> Err("voltage", "", numeral),
              voltage |-> "-1"]
        ELSE [sent |-> <<"AT RV">>, err |-> Nil, voltage |-> numeral]

DoSetAutomaticProtocol ==
    /\ call = NoneCalled
    /\ \E r1, r2 \in AtResults("ATSP0") :
         LET r == SetAutomaticProtocol(<<r1, r2>>)
         IN  call' = [fn |-> "SetAutomaticProtocol", replies |-> <<r1, r2>>,
                      sent |-> r.sent, err |-> r.err]
    /\ UNCHANGED <<heap, last, csc, built>>
    /\ UNCHANGED tvars

DoGetVersion ==
    /\ call = NoneCalled
    /\ \E r1, r2 \in AtResults("AT@1") :
         LET r == GetVersion(<<r1, r2>>)
         IN  call' = [fn |-> "GetVersion", replies |-> <<r1, r2>>,
                      sent |-> r.sent, err |-> r.err, version |-> r.version]
    /\ UNCHANGED <<heap, last, csc, built>>
    /\ UNCHANGED tvars

DoGetVoltage ==
    /\ call = NoneCalled
    /\ \E r1, r2 \in AtResults("AT RV") :
         LET r == GetVoltage(<<r1, r2>>)
         IN  call' = [fn |-> "GetVoltage", replies |-> <<r1, r2>>,
                      sent |-> r.sent, err |-> r.err, voltage |-> r.voltage]
    /\ UNCHANGED <<heap, last, csc, built>>
    /\ UNCHANGED tvars

\* the ways RealDevice.RunCommand fails: the port refuses the flush, the
\* write or the read, the first line is not the echo of the input, or no
\* line follows the echo
ExchangeFailures(c) ==
    { [op |-> "run", error |-> e, outputs |-> <<>>] :
        e \in { Err("flush", "", ""), Err("write", "", ""),
                Err("read", "", ""), Err("echo", ToCommand(c), "?"),
                Err("empty", "", "") } }

\* one RunOBDCommand call on a raw device that would answer twice
DoRunOBDCommandOn ==
    /\ call = NoneCalled
    /\ \E c \in Constructors(1) :
         \E r1 \in RawResults(c) \cup ExchangeFailures(c), r2 \in RawResults(c) :
           LET r == RunOBDCommandOn(c, <<r1, r2>>)
           IN  call' = [fn |-> "RunOBDCommand", command |-> c,
                        replies |-> <<r1, r2>>, sent |-> r.sent,
                        err |-> r.err, cmd |-> r.cmd]
    /\ UNCHANGED <<heap, last, csc, built>>
    /\ UNCHANGED tvars

\* the schemes an address may carry: the six NewDevice knows, one it does
\* not, and none at all
Schemes == {"serial", "tcp", "tcp4", "tcp6", "unix", "test", "ftp", ""}

\* an address as NewDevice sees it: whether os.Stat finds a file of that
\* name, whether url.Parse accepts it, its scheme, and whether the transport
\* behind it can be opened
Addresses ==
    [exists : BOOLEAN, parses : BOOLEAN, scheme : Schemes, opens : BOOLEAN]

NilDevice == [rawDevice |-> "nil"]

\* NewSerialDevice(u) and NewNetDevice(u): the transport, or an error
NewSerialDevice(addr) ==
    IF addr.opens THEN [rawDevice |-> "serial", err |-> Nil]
    ELSE [rawDevice |-> "nil", err |-> Err("open", "serial", "")]

NewNetDevice(addr) ==
    IF addr.opens THEN [rawDevice |-> "net", err |-> Nil]
    ELSE [rawDevice |-> "nil", err |-> Err("open", "net", "")]

\* NewDevice(addr, debug) on a transport that would answer with `replies`.
\* A scheme without a case leaves rawDevice nil and err nil, and the call of
\* RunCommand on the nil interface panics.
NewDevice(addr, replies) ==
    LET scheme == IF addr.exists THEN "serial" ELSE addr.scheme
        made == IF scheme = "serial" THEN NewSerialDevice(addr)
                ELSE IF scheme \in {"tcp", "tcp4", "tcp6", "unix"}
                THEN NewNetDevice(addr)
                ELSE IF scheme = "test"
                THEN [rawDevice |-> "mock", err |-> Nil]
                ELSE [rawDevice |-> "nil", err |-> Nil]
        answers == IF made.rawDevice = "mock"
                   THEN <<MockRunCommand("ATSP0")>> ELSE replies
        auto == SetAutomaticProtocol(answers)
    IN  IF ~addr.parses
        THEN [dev |-> NilDevice, err |-> Err("address", "", ""),
              panicked |-> FALSE, sent |-> <<>>, outputs |-> <<>>]
        ELSE IF IsErr(made.err)
        THEN [dev |-> NilDevice, err |-> made.err,
              panicked |-> FALSE, sent |-> <<>>, outputs |-> <<>>]
        ELSE IF made.rawDevice = "nil"
        THEN [dev |-> NilDevice, err |-> Nil,
              panicked |-> TRUE, sent |-> <<>>, outputs |-> <<>>]
        ELSE IF IsErr(auto.err)
        THEN [dev |-> NilDevice, err |-> auto.err,
              panicked |-> FALSE, sent |-> auto.sent,
              outputs |-> answers[1].outputs]
        ELSE [dev |-> [rawDevice |-> made.rawDevice], err |-> Nil,
              panicked |-> FALSE, sent |-> auto.sent,
              outputs |-> answers[1].outputs]

DoNewDevice ==
    /\ call = NoneCalled
    /\ \E addr \in Addresses, r1 \in AtResults("ATSP0") :
         LET r == NewDevice(addr, <<r1>>)
         IN  call' = [fn |-> "NewDevice", addr |-> addr, replies |-> <<r1>>,
                      sent |-> r.sent, err |-> r.err, dev |-> r.dev,
                      panicked |-> r.panicked, outputs |-> r.outputs]
    /\ UNCHANGED <<heap, last, csc, built>>
    /\ UNCHANGED tvars

\* the widths DataWidth() may report: those of the package's commands, and
\* the largest a byte holds
DataWidths == {0, 1, 2, 4, 253, 254, 255}

\* an OBDCommand of mode 1 and parameter 0x0C that reports the given width
CommandOfWidth(width) ==
    Command(1, "Custom", SERVICE_01_ID, 12, width, "custom", 0, Zero32)

\* a Result of `length` bytes that starts with the bytes b0 and b1
Frame(length, b0, b1) ==
    [nil |-> FALSE,
     value |-> [k \in 1..length |-> IF k = 1 THEN b0 ELSE IF k = 2 THEN b1 ELSE 0]]

\* the frames Validate is given for a command: short ones, and frames around
\* the length the command expects, with the right and with wrong echoes
FramesFor(c) ==
    { Frame(length, b0, b1) :
        length \in {0, 1, 2, 3, c.dataWidth + 1, c.dataWidth + 2, c.dataWidth + 3},
        b0 \in {c.modeId + 64, 127},
        b1 \in {c.parameterID, 13} }

DoValidate ==
    /\ call = NoneCalled
    /\ \E width \in DataWidths :
         \E frame \in FramesFor(CommandOfWidth(width)) :
            LET r == Validate(frame, CommandOfWidth(width))
            IN  call' = [fn |-> "Validate", cmd |-> CommandOfWidth(width),
                         frame |-> frame.value,
                         err |-> IF r.kind = "panic" THEN Nil ELSE r,
                         panicked |-> r.kind = "panic"]
    /\ UNCHANGED <<heap, last, csc, built>>
    /\ UNCHANGED tvars

\* how many transient lines come before the payload line
MaxTransient == 2

TransientLines == {"SEARCHING...", "BUS INIT: OK"}

IsTransient(line) == HasPrefix(line, "SEARCHING") \/ HasPrefix(line, "BUS INIT")

\* the lines a device may give as the one payload line of a response to c:
\* frames, good and bad, and the status lines
PayloadLines(c) ==
    { r.outputs[1] : r \in { x \in RawResults(c) :
                               /\ Len(x.outputs) = 1
                               /\ ~IsTransient(x.outputs[1]) } }

\* parseOBDResponse and RunOBDCommand on transient lines followed by one
\* payload line
DoParseOBDResponse ==
    /\ call = NoneCalled
    /\ \E c \in Constructors(1) :
         \E n \in 0..MaxTransient :
           \E transient \in [1..n -> TransientLines], payload \in PayloadLines(c) :
             LET outputs == transient \o <<payload>>
             IN  call' = [fn |-> "parseOBDResponse", cmd |-> c,
                          transient |-> transient, payload |-> payload,
                          parsed |-> parseOBDResponse(c, outputs),
                          ran |-> RunOBDCommand(c, Ok(outputs))]
    /\ UNCHANGED <<heap, last, csc, built>>
    /\ UNCHANGED tvars

\* the values a PartSupported is given: those of PartValues, all bits set,
\* only A7 set, and one bit set in each byte
SampleValues ==
    PartValues \cup {<<255, 255, 255, 255>>, <<128, 0, 0, 0>>, <<1, 2, 4, 8>>}

\* a caller asks a PartSupported about every parameter ID, and a table made
\* of that part alone
DoSupportsPID ==
    /\ call = NoneCalled
    /\ \E index \in 1..7, value \in SampleValues :
         LET part == SetRawValue(NewPartSupported(1, index), value)
         IN  call' = [fn |-> "SupportsPID", part |-> part,
                      inRange |-> {pid \in Bytes : PIDInRange(part, pid)},
                      supported |-> {pid \in Bytes : SupportsPID(part, pid)},
                      listed |-> {pid \in Bytes :
                                     IsSupported(Table(<<part>>), pid)},
                      commands |-> {c.key : c \in {x \in Constructors(2) :
                                                      SupportsCommand(part, x)}}]
    /\ UNCHANGED <<heap, last, csc, built>>
    /\ UNCHANGED tvars

\* longest table IsSupported is asked about
MaxTable == 8

\* the values of the parts of those tables: first and last bit set, and
\* 0xBE1FA813
TableValues == {<<128, 0, 0, 1>>, <<190, 31, 168, 19>>}

\* the table CheckSupportedCommands returns when the probes were answered
\* with `values`: every part is made with index 1, and the loop has gone on
\* exactly while the part's last bit was set
Discovered(values) ==
    [k \in 1..Len(values) |-> SetRawValue(NewPartSupported(k, 1), values[k])]

DiscoveredTables ==
    { Discovered(values \o <<final>>) :
        values \in SeqsOf({<<128, 0, 0, 1>>}, MaxTable - 1),
        final \in {<<0, 0, 0, 0>>, <<190, 31, 168, 18>>} }

\* the tables a caller may hold: made by NewSupportedCommands, or returned
\* by CheckSupportedCommands
Tables ==
    { NewSupportedCommands(values) : values \in SeqsOf(TableValues, MaxTable) }
        \cup DiscoveredTables

\* a caller asks a table about every parameter ID
DoIsSupported ==
    /\ call = NoneCalled
    /\ \E parts \in Tables :
         call' = [fn |-> "IsSupported", sc |-> Table(parts),
                  supported |-> {pid \in Bytes : IsSupported(Table(parts), pid)}]
    /\ UNCHANGED <<heap, last, csc, built>>
    /\ UNCHANGED tvars

\* a caller asks a table for the part at every place up to one past the
\* longest table, and for the part of every parameter ID
DoGetPart ==
    /\ call = NoneCalled
    /\ \E parts \in Tables :
         call' = [fn |-> "GetPart", sc |-> Table(parts),
                  got |-> [k \in 0..(MaxTable + 1) |-> GetPart(Table(parts), k)],
                  byPID |-> [pid \in Bytes |-> GetPartByPID(Table(parts), pid)]]
    /\ UNCHANGED <<heap, last, csc, built>>
    /\ UNCHANGED tvars

\* longest command list handed to FilterSupported
MaxFilter == 3

Kinds ==
    {"PartSupported", "MonitorStatus", "CoolantTemperature", "EngineRPM",
     "ClearTroubleCodes"}

\* the command of a kind, as its constructor makes it
NewOfKind(kind, addr) ==
    IF kind = "PartSupported" THEN NewPartSupported(addr, 1)
    ELSE IF kind = "MonitorStatus" THEN NewMonitorStatus(addr)
    ELSE IF kind = "CoolantTemperature" THEN NewCoolantTemperature(addr)
    ELSE IF kind = "EngineRPM" THEN NewEngineRPM(addr)
    ELSE NewClearTroubleCodes(addr)

\* the tables FilterSupported is asked with: empty, one part, two parts
FilterTables ==
    { NewSupportedCommands(values) : values \in SeqsOf(TableValues, 2) }

\* a caller filters a list of commands, instance k at position k
DoFilterSupported ==
    /\ call = NoneCalled
    /\ \E parts \in FilterTables, n \in 0..MaxFilter :
         \E kinds \in [1..n -> Kinds] :
            LET commands == [k \in 1..n |-> NewOfKind(kinds[k], k)]
            IN  \E r \in {FilterSupported(Table(parts), commands)} :
                  call' = [fn |-> "FilterSupported", sc |-> Table(parts),
                           commands |-> commands, result |-> r.result,
                           scAfter |-> r.sc, commandsAfter |-> r.commands]
    /\ UNCHANGED <<heap, last, csc, built>>
    /\ UNCHANGED tvars

\* the commands the package constructs: mode, parameter ID, data width and
\* key of each (the PartSupported of every index, then the others in the
\* order of the file)
BuiltIn ==
    { <<SERVICE_01_ID, (i - 1) * PartRange, 4,
        "supported_commands_part" \o ToString(i)>> : i \in 1..7 }
    \cup
    { <<SERVICE_01_ID, 1, 4, "monitor_status">>,
      <<SERVICE_01_ID, 4, 1, "engine_load">>,
      <<SERVICE_01_ID, 47, 1, "fuel">>,
      <<SERVICE_01_ID, 49, 2, "dist_since_dtc_clean">>,
      <<SERVICE_01_ID, 166, 4, "odometer">>,
      <<SERVICE_01_ID, 164, 4, "transmission_actual_gear">>,
      <<SERVICE_01_ID, 5, 1, "coolant_temperature">>,
      <<SERVICE_01_ID, 6, 1, "short_term_fuel_trim_bank1">>,
      <<SERVICE_01_ID, 7, 1, "long_term_fuel_trim_bank1">>,
      <<SERVICE_01_ID, 8, 1, "short_term_fuel_trim_bank2">>,
      <<SERVICE_01_ID, 9, 1, "long_term_fuel_trim_bank2">>,
      <<SERVICE_01_ID, 10, 1, "fuel_pressure">>,
      <<SERVICE_01_ID, 11, 1, "intake_manifold_pressure">>,
      <<SERVICE_01_ID, 12, 2, "engine_rpm">>,
      <<SERVICE_01_ID, 13, 1, "vehicle_speed">>,
      <<SERVICE_01_ID, 14, 1, "timing_advance">>,
      <<SERVICE_01_ID, 15, 1, "intake_air_temperature">>,
      <<SERVICE_01_ID, 16, 2, "maf_air_flow_rate">>,
      <<SERVICE_01_ID, 17, 1, "throttle_position">>,
      <<SERVICE_01_ID, 28, 1, "obd_standards">>,
      <<SERVICE_01_ID, 31, 2, "runtime_since_engine_start">>,
      <<SERVICE_04_ID, 0, 0, "clear_trouble_codes">>,
      <<SERVICE_01_ID, 66, 2, "control_module_voltage">>,
      <<SERVICE_01_ID, 70, 1, "ambient_temperature">>,
      <<SERVICE_01_ID, 92, 1, "engine_oil_temperature">>,
      <<SERVICE_01_ID, 51, 1, "absolute_barometric_pressure">> }

\* the baseCommand of a built-in command
BaseOf(b) == Command(1, "baseCommand", b[1], b[2], b[3], b[4], 0, 0)

\* a caller asks a built-in command for its text
DoToCommand ==
    /\ call = NoneCalled
    /\ \E b \in BuiltIn :
         call' = [fn |-> "ToCommand", cmd |-> BaseOf(b),
                  text |-> ToCommand(BaseOf(b))]
    /\ UNCHANGED <<heap, last, csc, built>>
    /\ UNCHANGED tvars

\* longest slice of literals handed to HexLitsToBytes
MaxLits == 3

\* the literals: empty, too short, too long, no hex, and hex of either case
Literals == {"", "A", "ABC", "Tv", "0B", "F2", "00", "ff"}

DoHexLitsToBytes ==
    /\ call = NoneCalled
    /\ \E n \in 0..MaxLits :
         \E literals \in [1..n -> Literals] :
            \E r \in {HexLitsToBytes(literals)} :
               call' = [fn |-> "HexLitsToBytes", literals |-> literals,
                        result |-> r.result, err |-> r.err]
    /\ UNCHANGED <<heap, last, csc, built>>
    /\ UNCHANGED tvars

\* longest slice handed to BytesToUint64
MaxBytes == 9

\* the slices: every one of up to two bytes out of six, and longer ones of
\* every length: all 0xFF, the bytes 1, 2, 3 ..., and 0x80 before zeros;
\* 0x54 0x01 0x12 0xBC is the one of the test
ByteSlices ==
    UNION { [1..n -> {0, 1, 26, 123, 248, 255}] : n \in 0..2 }
    \cup { [k \in 1..n |-> 255] : n \in 3..MaxBytes }
    \cup { [k \in 1..n |-> k] : n \in 3..MaxBytes }
    \cup { [k \in 1..n |-> IF k = 1 THEN 128 ELSE 0] : n \in 3..MaxBytes }
    \cup { <<84, 1, 18, 188>> }

DoBytesToUint64 ==
    /\ call = NoneCalled
    /\ \E bytes \in ByteSlices :
         call' = [fn |-> "BytesToUint64", bytes |-> bytes,
                  res |-> BytesToUint64(bytes).res,
                  err |-> BytesToUint64(bytes).err]
    /\ UNCHANGED <<heap, last, csc, built>>
    /\ UNCHANGED tvars

\* the commands whose SetValue is called on its own
SetValueKinds == TemperatureKinds \cup {"TimingAdvance", "MonitorStatus"}

\* the command of a kind as its constructor makes it
NewDecodable(kind, addr) ==
    CASE kind = "CoolantTemperature" -> NewCoolantTemperature(addr)
      [] kind = "IntakeAirTemperature" -> NewIntakeAirTemperature(addr)
      [] kind = "AmbientTemperature" -> NewAmbientTemperature(addr)
      [] kind = "EngineOilTemperature" -> NewEngineOilTemperature(addr)
      [] kind = "TimingAdvance" -> NewTimingAdvance(addr)
      [] OTHER -> NewMonitorStatus(addr)

\* the values a command holds before the call: the constructor's, or one an
\* earlier call decoded
HeldValues(kind) ==
    CASE kind \in TemperatureKinds -> {0, 50}
      [] kind = "TimingAdvance" -> {[n |-> 0, d |-> 1], [n |-> 10, d |-> 1]}
      [] OTHER -> {[MilActive |-> FALSE, DtcAmount |-> 0],
                   [MilActive |-> TRUE, DtcAmount |-> 5]}

\* the payloads handed to SetValue: every byte where one byte is expected,
\* every first byte with the others all zero or all ones where four are,
\* and payloads of other lengths
PayloadsFor(kind) ==
    IF kind = "MonitorStatus"
    THEN { <<b>> \o rest : b \in Bytes, rest \in [1..3 -> {0, 255}] }
            \cup {<<255>>, <<255, 0, 0>>, <<255, 0, 0, 0, 0>>}
    ELSE { <<b>> : b \in Bytes } \cup {<<0, 0>>, <<255, 0>>}

\* cmd.SetValue(result) on a result NewResult made: the echo and a payload
DoSetValue ==
    /\ call = NoneCalled
    /\ \E kind \in SetValueKinds :
         \E held \in HeldValues(kind), payload \in PayloadsFor(kind) :
           LET c == [NewDecodable(kind, 1) EXCEPT !.Value = held]
               result == [nil |-> FALSE, value |-> Echo(c) \o payload]
               r == SetValue(c, result)
           IN  call' = [fn |-> "SetValue", kind |-> kind, before |-> c,
                        payload |-> payload, err |-> r.err, cmd |-> r.cmd]
    /\ UNCHANGED <<heap, last, csc, built>>
    /\ UNCHANGED tvars

(***************************************************************************)
(* RealDevice.read() on its own: the successive serialPort.Read calls      *)
(* return the outcomes in reads, each some bytes or an error               *)
(***************************************************************************)
\* Read calls a stream is delivered in
MaxReads == 3

\* what the adapter sends for the input "A": the echo, a line and the
\* prompt; the same followed by one more byte; a prompt before the line
Streams == {"A\rOK\r>", "A\rOK\r>\r", "A\r>OK\r>"}

\* every way to deliver the bytes s in at most n Read calls
RECURSIVE Pieces(_, _)
Pieces(s, n) ==
    IF s = "" THEN {<<>>}
    ELSE IF n = 1 THEN {<<s>>}
    ELSE UNION { { <<SubSeq(s, 1, k)>> \o rest :
                      rest \in Pieces(SubSeq(s, k + 1, Len(s)), n - 1) } :
                   k \in 1..Len(s) }

Delivered(bytes) == [bytes |-> bytes, failed |-> FALSE]
\* a Read that returns no byte and no error, and one that returns an error
NoByte == [bytes |-> "", failed |-> FALSE]
ReadError == [bytes |-> "", failed |-> TRUE]

\* the outcomes of the Read calls: a delivery of a stream, with or without
\* one empty or failed Read somewhere among them
ReadOutcomes ==
    LET deliveries ==
            { [k \in 1..Len(cut) |-> Delivered(cut[k])] :
                cut \in UNION { Pieces(stream, MaxReads) : stream \in Streams } }
    IN  deliveries \cup
        UNION { { SubSeq(d, 1, at) \o <<extra>> \o SubSeq(d, at + 1, Len(d)) :
                    at \in 0..Len(d), extra \in {NoByte, ReadError} } :
                d \in deliveries }

\* the loop of read() from the Read call polls + 1 on; "polling": the loop
\* has made every Read of reads and goes on
RECURSIVE readFrom(_, _, _)
readFrom(reads, buffer, polls) ==
    IF polls >= Len(reads)
    THEN [status |-> "polling", buffer |-> buffer, polls |-> polls]
    ELSE LET tmp == reads[polls + 1]
             n == Len(tmp.bytes)
         IN  IF tmp.failed
             THEN [status |-> "error", buffer |-> buffer, polls |-> polls + 1]
             ELSE IF n = 0
             THEN [status |-> "panic", buffer |-> buffer, polls |-> polls + 1]
             ELSE IF At(tmp.bytes, n) = ">"
             THEN [status |-> "done",
                   buffer |-> SubSeq(buffer \o tmp.bytes, 1,
                                     Len(buffer) + n - 1),
                   polls |-> polls + 1]
             ELSE readFrom(reads, buffer \o tmp.bytes, polls + 1)

\* dev.read() after dev.write("A"): the loop, then processResult on the
\* buffer; err is what read returns
DoRead ==
    /\ call = NoneCalled
    /\ \E reads \in ReadOutcomes :
         \E r \in {readFrom(reads, "", 0)} :
           call' = [fn |-> "read", input |-> "A", reads |-> reads,
                    status |-> r.status, polls |-> r.polls,
                    buffer |-> r.buffer,
                    err |-> IF r.status = "done"
                            THEN processResult(r.buffer, "A").err
                            ELSE IF r.status = "error"
                            THEN Err("read", "", "")
                            ELSE Nil]
    /\ UNCHANGED <<heap, last, csc, built>>
    /\ UNCHANGED tvars

\* the widths of the payload helpers: PayloadAsByte, PayloadAsUInt16,
\* PayloadAsUInt32, PayloadAsUInt64
HelperWidths == {1, 2, 4, 8}

\* longest payload handed to a helper
MaxPayload == 9

\* payloads of n bytes: all zero, all ones, bytes that all differ, and FF B2
\* followed by B2s
PayloadsOfLength(n) ==
    { [k \in 1..n |-> 0], [k \in 1..n |-> 255],
      [k \in 1..n |-> (17 * k) % 256],
      [k \in 1..n |-> IF k = 1 THEN 255 ELSE 178] }

PayloadAs(width, result) ==
    CASE width = 1 -> PayloadAsByte(result)
      [] width = 2 -> PayloadAsUInt16(result)
      [] width = 4 -> PayloadAsUInt32(result)
      [] OTHER -> PayloadAsUInt64(result)

\* one call of a payload helper on a result holding two control bytes and
\* a payload
DoPayloadAs ==
    /\ call = NoneCalled
    /\ \E width \in HelperWidths, n \in 0..MaxPayload :
         \E payload \in PayloadsOfLength(n) :
           LET result == [nil |-> FALSE, value |-> <<65, 12>> \o payload]
               r == PayloadAs(width, result)
           IN  call' = [fn |-> "PayloadAs", width |-> width,
                        value |-> result.value, err |-> r.err, v |-> r.v]
    /\ UNCHANGED <<heap, last, csc, built>>
    /\ UNCHANGED tvars

(***************************************************************************)
(* The built-in commands: the width each constructor declares and the      *)
(* width of the payload its SetValue asks the Result for                   *)
(***************************************************************************)
\* the constructors of src/commands.go: BaseCommand{pid, width, key}, with
\* ModeId() = 0x01
CommandsGo ==
    { <<1, (i - 1) * 32, 4, "supported_commands_part" \o ToString(i)>> :
        i \in 1..5 }
    \cup
    { <<1, 4, 1, "engine_load">>,
      <<1, 5, 1, "coolant_temperature">>,
      <<1, 6, 1, "short_term_fuel_trim_bank1">>,
      <<1, 7, 1, "long_term_fuel_trim_bank1">>,
      <<1, 8, 1, "short_term_fuel_trim_bank2">>,
      <<1, 9, 1, "long_term_fuel_trim_bank2">>,
      <<1, 10, 1, "fuel_pressure">>,
      <<1, 11, 1, "intake_manifold_pressure">>,
      <<1, 12, 2, "engine_rpm">>,
      <<1, 13, 1, "vehicle_speed">>,
      <<1, 14, 1, "timing_advance">>,
      <<1, 15, 1, "intake_air_temperature">>,
      <<1, 16, 2, "maf_air_flow_rate">>,
      <<1, 17, 1, "throttle_position">>,
      <<1, 28, 1, "obd_standards">>,
      <<1, 31, 1, "runtime_since_engine_start">> }

ConstructorsOf(file) == IF file = "commands.go" THEN CommandsGo ELSE BuiltIn

\* the payload bytes SetValue asks for: PayloadAsUInt16, PayloadAsUInt32
\* (and the four bytes of MonitorStatus), none for ClearTroubleCodes,
\* PayloadAsByte for the others
PayloadDemanded(key) ==
    IF key \in {"dist_since_dtc_clean", "engine_rpm", "maf_air_flow_rate",
                "runtime_since_engine_start", "control_module_voltage"}
    THEN 2
    ELSE IF \/ HasPrefix(key, "supported_commands_part")
            \/ key \in {"monitor_status", "odometer",
                         "transmission_actual_gear"}
    THEN 4
    ELSE IF key = "clear_trouble_codes" THEN 0
    ELSE 1

\* the error of SetValue(result) for a built-in command
SetValueBuiltIn(b, result) ==
    IF b[4] = "clear_trouble_codes" THEN Nil
    ELSE payloadAsUInt(result, PayloadDemanded(b[4])).err

\* a built-in command is given a frame with its echo and a payload of the
\* width it declares or of the width its SetValue asks for
DoSetValueBuiltIn ==
    /\ call = NoneCalled
    /\ \E file \in {"commands.go", "part_002"} :
         \E b \in ConstructorsOf(file) :
           \E payload \in Payloads(b[3]) \cup Payloads(PayloadDemanded(b[4])) :
             LET result == [nil |-> FALSE,
                            value |-> Echo(BaseOf(b)) \o payload]
             IN  call' = [fn |-> "SetValueBuiltIn", file |-> file,
                          key |-> b[4], declared |-> b[3],
                          demanded |-> PayloadDemanded(b[4]),
                          value |-> result.value,
                          valid |-> Validate(result, BaseOf(b)),
                          set |-> SetValueBuiltIn(b, result)]
    /\ UNCHANGED <<heap, last, csc, built>>
    /\ UNCHANGED tvars

NextCall ==
    \/ DoRunManyOBDCommands
    \/ DoSetAutomaticProtocol
    \/ DoGetVersion
    \/ DoGetVoltage
    \/ DoRunOBDCommandOn
    \/ DoNewDevice
    \/ DoValidate
    \/ DoParseOBDResponse
    \/ DoSupportsPID
    \/ DoIsSupported
    \/ DoGetPart
    \/ DoFilterSupported
    \/ DoToCommand
    \/ DoHexLitsToBytes
    \/ DoBytesToUint64
    \/ DoSetValue
    \/ DoRead
    \/ DoPayloadAs
    \/ DoSetValueBuiltIn

CallSpec == Init /\ [][NextCall]_vars

(***************************************************************************)
(* Device.RunOBDCommand over the RealDevice: one caller runs its command   *)
(* through RunCommand and decodes what RunCommand returned.                *)
(***************************************************************************)
ObdCaller == 1

\* RunOBDCommand is entered: rawDevice.RunCommand(cmd.ToCommand())
ObdRunCommand ==
    /\ Len(heap) >= 1
    /\ res = NoResult
    /\ RunCommand(ObdCaller, ToCommand(heap[1]))

\* a decode error also marking the RealDevice as failed
DecodePoisonsTransport ==
    /\ pc[ObdCaller] = "idle"
    /\ res.op = "run"
    /\ LET r == RunOBDCommand(heap[1], res)
       IN  /\ heap' = [heap EXCEPT ![1] = r.cmd]
           /\ last' = [given |-> 1, before |-> heap[1],
                       returned |-> r.cmd.addr, err |-> r.err,
                       prev |-> last.err]
           /\ state' = IF IsErr(r.err) THEN deviceError ELSE state
    /\ res' = NoResult
    /\ UNCHANGED <<mutex, devInput, devOutputs, rx, crashed,
                   pc, op, cmd, buf, err, io, latched>>
    /\ UNCHANGED <<csc, built, call>>

\* RunCommand has returned rawRes: the rest of RunOBDCommand
ObdDecode ==
    /\ pc[ObdCaller] = "idle"
    /\ res.op = "run"
    /\ LET r == RunOBDCommand(heap[1], res)
       IN  /\ heap' = [heap EXCEPT ![1] = r.cmd]
           /\ last' = [given |-> 1, before |-> heap[1],
                       returned |-> r.cmd.addr, err |-> r.err,
                       prev |-> last.err]
    /\ res' = NoResult
    /\ UNCHANGED <<mutex, state, devInput, devOutputs, rx, crashed,
                   pc, op, cmd, buf, err, io, latched>>
    /\ UNCHANGED <<csc, built, call>>

NextStack ==
    \/ NewCommand
    \/ ObdRunCommand
    \/ Lock(ObdCaller)
    \/ write(ObdCaller)
    \/ read(ObdCaller)
    \/ Out(ObdCaller)
    \/ Return(ObdCaller)
    \/ ObdDecode

StackSpec == Init /\ [][NextStack]_vars

(***************************************************************************)
(* Properties of the transport                                             *)
(***************************************************************************)
InExchange(c) == pc[c] \in {"flush", "write", "read", "out", "panic"}

\* the response as the stream gave it: its first line, and what follows it
FirstLine(b) ==
    LET i == IndexFrom(b, CR, 1)
    IN  IF i = 0 THEN b ELSE SubSeq(b, 1, i - 1)

AfterFirstLine(b) ==
    LET i == IndexFrom(b, CR, 1)
    IN  IF i = 0 THEN "" ELSE SubSeq(b, i + 1, Len(b))

NoPayload(b) ==
    \A i \in 1..Len(AfterFirstLine(b)) :
        SubSeq(AfterFirstLine(b), i, i) \in {CR, " "}

PayloadOf(b) == TrimmedParts(Split(AfterFirstLine(b), CR))

\* what the stream did makes the exchange of caller c a failed one
StepFailed(c) ==
    \/ io[c].wfail
    \/ io[c].rfail
    \/ FirstLine(buf[c]) # cmd[c]
    \/ NoPayload(buf[c])

\* caller c has read a whole response (up to the prompt) and not yet left
ExchangeRead(c) == pc[c] = "out" /\ io[c].reads /\ ~io[c].rfail

C2_OneExchangeInFlight ==
    /\ Cardinality({c \in Callers : InExchange(c)}) <= 1
    /\ \A c \in Callers :
         /\ InExchange(c) => mutex = c
         /\ pc[c] = "read" => devInput = cmd[c]

\* C2 witness: one caller is reading its response while another one waits
\* for the mutex.
C2_Witness ==
    \E c, d \in Callers :
        c # d /\ pc[c] = "read" /\ buf[c] # "" /\ pc[d] = "lock"

\* C3: a RunCommand sets the state busy when it starts; when it leaves, the
\* result is failed and the state error if a step failed (write error, read
\* error, echo mismatch, empty payload), else the result is not failed and
\* the state ready; after a failed write there is no read.
C3_RunCommandOutcome ==
    /\ [][\A c \in Callers :
            /\ (pc[c] = "lock" /\ pc'[c] # "lock") => state' = deviceBusy
            /\ (op[c] = "run" /\ pc[c] = "out" /\ pc'[c] = "ret")
                 => /\ IsErr(err[c]) = StepFailed(c)
                    /\ state' = IF StepFailed(c) THEN deviceError
                                ELSE deviceReady
            /\ (op[c] = "run" /\ pc[c] = "ret" /\ pc'[c] = "idle")
                 => /\ res'.op = "run"
                    /\ IsErr(res'.error) = IsErr(err[c])]_vars
    /\ [](\A c \in Callers : io[c].wfail => ~io[c].reads /\ pc[c] # "read")

\* C3 witness: a RunCommand whose response had the wrong echo has released
\* the device, the state is error.
C3_Witness ==
    \E c \in Callers :
        /\ op[c] = "run" /\ pc[c] = "ret" /\ err[c].kind = "echo"
        /\ state = deviceError

\* C4: a response read up to the prompt fails with the echo mismatch error
\* (expected: the command written, got: the first line) exactly when its
\* first line differs from the command written; when it passes the outputs
\* are the lines after the first one, the echo line is not among them.
C4_EchoChecked ==
    \A c \in Callers :
        ExchangeRead(c) =>
            /\ (FirstLine(buf[c]) # cmd[c]) = (err[c].kind = "echo")
            /\ err[c].kind = "echo"
                 => err[c].a = cmd[c] /\ err[c].b = FirstLine(buf[c])
            /\ err[c].kind \in {"nil", "banner"}
                 => devOutputs = PayloadOf(buf[c])

\* C4 witness: a RunCommand has read a response whose first line is its
\* command and whose payload is not empty.
C4_Witness ==
    \E c \in Callers :
        /\ ExchangeRead(c) /\ op[c] = "run" /\ err[c].kind = "nil"
        /\ devOutputs # <<>>

(***************************************************************************)
(* Properties of capability discovery and of RunOBDCommand                 *)
(***************************************************************************)
PartPIDs == {0, 32, 64, 96, 128, 160, 192}

\* a well-formed PartSupported descriptor
WellFormedPart(part) ==
    /\ part.index \in 1..7
    /\ part.parameterID = (part.index - 1) * PartRange
    /\ part.dataWidth = 4
    /\ part.modeId = SERVICE_01_ID

\* position k of the table holds the part of index k
Contiguous(parts) == \A k \in 1..Len(parts) : parts[k].index = k

NoDuplicates(parts) ==
    \A j, k \in 1..Len(parts) :
        j # k => parts[j].parameterID # parts[k].parameterID

\* C5: in CheckSupportedCommands the k-th probe of a run is the query for
\* part k: after a part with its next-part bit set, the next exchange asks
\* for the following part (parameter id (k-1)*32).
C5_KthProbeIsPartK ==
    \A k \in 1..Len(csc.probes) :
        /\ csc.probes[k].index = k
        /\ csc.probes[k].parameterID = (k - 1) * PartRange

\* C6: CheckSupportedCommands issues at most 7 exchanges, whatever the
\* device answers, even when every part has its next-part bit set.
C6_AtMostSevenProbes == Len(csc.probes) <= 7

\* C7: CheckSupportedCommands stops at the first part whose least
\* significant bit is clear: while the loop goes on every part received had
\* the bit set, the returned table holds exactly the parts received and ends
\* with the part whose bit is clear, and a failed probe returns no table
\* but the error.
C7_StopsAtFirstClearBit ==
    /\ csc.pc = "loop" =>
          /\ Len(csc.result) = Len(csc.probes)
          /\ \A k \in 1..Len(csc.result) : csc.result[k].Value[4] % 2 = 1
    /\ (csc.pc = "done" /\ ~IsErr(csc.err)) =>
          /\ ~csc.ret.nil
          /\ csc.ret.parts = csc.result
          /\ Len(csc.result) = Len(csc.probes)
          /\ Len(csc.result) >= 1
          /\ csc.result[Len(csc.result)].Value[4] % 2 = 0
          /\ \A k \in 1..(Len(csc.result) - 1) :
                csc.result[k].Value[4] % 2 = 1
    /\ (csc.pc = "done" /\ IsErr(csc.err)) =>
          /\ csc.ret.nil
          /\ csc.ret.parts = <<>>

\* a discovery that went on after a part with the bit set and stopped at
\* the part with the bit clear
C7_Witness ==
    /\ csc.pc = "done"
    /\ ~IsErr(csc.err)
    /\ Len(csc.probes) = 3
    /\ csc.ret.parts[2].Value = <<255, 255, 255, 255>>
    /\ csc.ret.parts[3].Value = <<0, 0, 0, 0>>

\* C8: every PartSupported descriptor has an index in 1..7 (an index below 1
\* or above 7 is clamped), parameter id (index-1)*32 and data width 4, and
\* every probe CheckSupportedCommands writes has a parameter id in
\* {0x00, 0x20, 0x40, 0x60, 0x80, 0xA0, 0xC0}.
C8_PartIndexInRange ==
    /\ \A k \in 1..Len(built.parts) : WellFormedPart(built.parts[k])
    /\ built.call = "NewPartSupported" =>
          built.parts[1].index =
              IF built.arg < 1 THEN 1 ELSE IF built.arg > 7 THEN 7
              ELSE built.arg
    /\ \A k \in 1..Len(csc.result) : WellFormedPart(csc.result[k])
    /\ \A k \in 1..Len(csc.probes) :
          /\ csc.probes[k].index \in 1..7
          /\ csc.probes[k].parameterID \in PartPIDs
          /\ csc.probes[k].dataWidth = 4
          /\ csc.probes[k].text =
                "01" \o Sprintf02X(csc.probes[k].parameterID) \o "1"

\* a descriptor asked for with an index above 7 and made with index 7
C8_Witness ==
    /\ built.call = "NewPartSupported"
    /\ built.arg = 200
    /\ built.parts[1].index = 7
    /\ built.parts[1].parameterID = 192

\* C9: in every table made by CheckSupportedCommands or NewSupportedCommands
\* position k (from 0) holds the part of index k+1 and no two entries cover
\* the same PID range.
C9_TableContiguous ==
    /\ built.call = "NewSupportedCommands" =>
          Contiguous(built.parts) /\ NoDuplicates(built.parts)
    /\ ~csc.ret.nil =>
          Contiguous(csc.ret.parts) /\ NoDuplicates(csc.ret.parts)

\* C10: RunOBDCommand returns the instance it was given, and when it returns
\* an error the command is exactly as it was before the call.
C10_FailureLeavesCommand ==
    last.given # 0 =>
        /\ last.returned = last.given
        /\ heap[last.given].addr = last.given
        /\ IsErr(last.err) => heap[last.given] = last.before

\* a command that holds a decoded value, then fails validation
C10_Witness ==
    /\ last.given # 0
    /\ last.err.kind = "parameter"
    /\ last.before.kind = "PartSupported"
    /\ last.before.Value = <<0, 0, 0, 1>>
    /\ heap[last.given].Value = <<0, 0, 0, 1>>

(***************************************************************************)
(* Properties of the other entry points of Device                          *)
(***************************************************************************)
\* the first command of a RunManyOBDCommands call whose exchange or decoding
\* fails, 0 when none does
FirstFailing(commands, replies) ==
    LET failing == {k \in 1..Len(commands) :
                        IsErr(RunOBDCommand(commands[k], replies[k]).err)}
    IN  IF failing = {} THEN 0
        ELSE CHOOSE k \in failing : \A j \in failing : k <= j

\* C11: RunManyOBDCommands runs the commands in list order, one exchange
\* each; at the first command that fails it sends nothing for the later
\* commands and returns that command's error with an empty list; when all
\* succeed the list returned has the length and the order of the input.
C11_RunManyInOrder ==
    call.fn = "RunManyOBDCommands" =>
        LET f == FirstFailing(call.commands, call.replies)
            n == Len(call.commands)
        IN  /\ \A k \in 1..Len(call.sent) :
                    /\ k <= n
                    /\ call.sent[k] = ToCommand(call.commands[k])
            /\ f = 0 => /\ ~IsErr(call.err)
                        /\ Len(call.sent) = n
                        /\ Len(call.result) = n
                        /\ \A k \in 1..n :
                              /\ call.result[k].addr = call.commands[k].addr
                              /\ call.result[k] = call.cmds[k]
            /\ f # 0 => /\ Len(call.sent) = f
                        /\ call.result = <<>>
                        /\ call.err = RunOBDCommand(call.commands[f],
                                                    call.replies[f]).err
                        /\ \A k \in (f + 1)..n :
                              call.cmds[k] = call.commands[k]

\* two commands of which the first fails: the second is never sent
C11_Witness ==
    /\ call.fn = "RunManyOBDCommands"
    /\ Len(call.commands) = 2
    /\ call.err.kind = "nodata"
    /\ call.sent = <<"01051">>
    /\ call.commands[2].kind = "EngineRPM"
    /\ call.result = <<>>

\* the first line that does not start with SEARCHING or BUS INIT, "" if none
FirstNonTransient(outputs) ==
    LET others == {k \in 1..Len(outputs) :
                      /\ ~HasPrefix(outputs[k], "SEARCHING")
                      /\ ~HasPrefix(outputs[k], "BUS INIT")}
    IN  IF others = {} THEN ""
        ELSE outputs[CHOOSE k \in others : \A j \in others : k <= j]

\* the command each entry point sends
CommandOf(c) ==
    CASE c.fn = "SetAutomaticProtocol" -> "ATSP0"
      [] c.fn = "GetVersion" -> "AT@1"
      [] c.fn = "GetVoltage" -> "AT RV"
      [] c.fn = "RunOBDCommand" -> ToCommand(c.command)

\* C12: no retries: a call of RunOBDCommand, GetVersion, GetVoltage or
\* SetAutomaticProtocol makes exactly one exchange whatever it gets back; a
\* first non-transient line starting with UNABLE TO CONNECT or NO DATA makes
\* RunOBDCommand return an error, a different one for each status.
C12_OneExchangePerCall ==
    call.fn \in {"RunOBDCommand", "GetVersion", "GetVoltage",
                 "SetAutomaticProtocol"} =>
        /\ call.sent = <<CommandOf(call)>>
        /\ IsErr(call.replies[1].error) => call.err = call.replies[1].error
        /\ (call.fn = "RunOBDCommand" /\ ~IsErr(call.replies[1].error)) =>
              LET line == FirstNonTransient(call.replies[1].outputs)
              IN  /\ HasPrefix(line, "UNABLE TO CONNECT")
                        => call.err.kind = "unable"
                  /\ HasPrefix(line, "NO DATA") => call.err.kind = "nodata"
                  /\ call.err.kind = "unable"
                        => HasPrefix(line, "UNABLE TO CONNECT")
                  /\ call.err.kind = "nodata" => HasPrefix(line, "NO DATA")

\* NO DATA answered although the device would have answered a second request
C12_Witness ==
    /\ call.fn = "RunOBDCommand"
    /\ call.replies[1].outputs = <<"NO DATA">>
    /\ call.replies[2].outputs = <<"41 05 FF">>
    /\ call.err.kind = "nodata"
    /\ call.sent = <<"01051">>

\* the errors RunOBDCommand makes itself, after RunCommand succeeded
DecodeKinds ==
    {"unable", "nodata", "literals", "parse", "length", "mode", "parameter",
     "payload"}

\* RunOBDCommand has returned and nothing was called since
ObdReturned ==
    /\ pc[ObdCaller] = "idle"
    /\ res = NoResult
    /\ last.given # 0

\* C13: an error of RunOBDCommand that concerns the command only (a status
\* line, a line that is no hex, a Validate mismatch, a wrong payload width)
\* leaves the RealDevice ready and unlocked, so that the next RunOBDCommand
\* is a normal exchange; the RealDevice is in the error state only after a
\* failed exchange.
C13_DecodeErrorLeavesTransport ==
    ObdReturned =>
        /\ last.err.kind \in DecodeKinds =>
              /\ state = deviceReady
              /\ mutex = 0
              /\ ~crashed
        /\ state = deviceError => last.err.kind \in {"write", "read", "echo", "empty"}
        /\ state # deviceBusy

\* a RunOBDCommand that succeeds right after one that failed on NO DATA
C13_Witness ==
    /\ ObdReturned
    /\ last.prev.kind = "nodata"
    /\ ~IsErr(last.err)
    /\ last.before.Value # heap[1].Value
    /\ state = deviceReady

\* C14: NewDevice returns, and returns either a Device or an error, never
\* both and never neither: a Device only after the transport was made and
\* "ATSP0" was answered with the first line "OK", and for every other
\* address, one with an unknown scheme included, no Device and an error.
C14_NewDeviceOrError ==
    call.fn = "NewDevice" =>
        /\ ~call.panicked
        /\ (call.dev = NilDevice) # (call.err = Nil)
        /\ call.dev # NilDevice =>
              /\ call.sent = <<"ATSP0">>
              /\ call.outputs[1] = "OK"

\* one of the first two lines starts with "ELM327"
HasBanner(outputs) ==
    \E k \in 1..2 : k <= Len(outputs) /\ HasPrefix(outputs[k], "ELM327")

\* the stream took "ATZ" and gave a whole response to it, echo first, whose
\* first or second output line starts with "ELM327"
ResetAnswered(c) ==
    /\ ~io[c].wfail
    /\ io[c].reads
    /\ ~io[c].rfail
    /\ devInput = "ATZ"
    /\ FirstLine(buf[c]) = "ATZ"
    /\ HasBanner(PayloadOf(buf[c]))

\* C15: a Reset takes the device, flushes before it writes, writes "ATZ",
\* reads, and has no error exactly when the flush, the write and the read
\* went well and the first or the second output line starts with "ELM327";
\* at its end it sets the state ready when it has no error and error when it
\* has one, never busy, and returns that error.
C15_ResetOutcome ==
    [][\A c \in Callers :
         /\ (op[c] = "reset" /\ pc[c] = "lock" /\ pc'[c] # "lock")
              => pc'[c] = "flush" /\ state' = deviceBusy
         /\ (op[c] = "reset" /\ pc[c] = "flush" /\ pc'[c] # "flush")
              => /\ io[c] = NoIO
                 /\ cmd[c] = "ATZ"
                 /\ pc'[c] = IF IsErr(err'[c]) THEN "out" ELSE "write"
         /\ (op[c] = "reset" /\ pc[c] = "out" /\ pc'[c] = "ret")
              => /\ ~IsErr(err[c]) <=> ResetAnswered(c)
                 /\ state' = IF IsErr(err[c]) THEN deviceError
                             ELSE deviceReady
         /\ (op[c] = "reset" /\ pc[c] = "ret" /\ pc'[c] = "idle")
              => res' = [op |-> "reset", error |-> err[c],
                         outputs |-> <<>>]]_vars

\* C15 witness: a Reset is about to return without error, the device is
\* ready, and the banner was on the second output line only.
C15_Witness ==
    \E c \in Callers :
        /\ op[c] = "reset" /\ pc[c] = "ret" /\ ~IsErr(err[c])
        /\ state = deviceReady
        /\ Len(devOutputs) > 1
        /\ ~HasPrefix(devOutputs[1], "ELM327")
        /\ HasPrefix(devOutputs[2], "ELM327")

\* C16: Validate returns without error exactly for a frame of DataWidth+2
\* bytes whose byte 0 is ModeID+0x40 and whose byte 1 is ParameterID; a
\* frame of another length gets the length error whatever its echoes are,
\* and no byte is read beyond the end of a frame shorter than 2.
C16_ValidateIff ==
    call.fn = "Validate" =>
        LET frame == call.frame
            c == call.cmd
            rightLength == Len(frame) = c.dataWidth + 2
        IN  /\ ~call.panicked
            /\ (call.err = Nil) <=> /\ rightLength
                                    /\ frame[1] = c.modeId + 64
                                    /\ frame[2] = c.parameterID
            /\ ~rightLength => call.err.kind = "length"
            /\ (rightLength /\ frame[1] # c.modeId + 64)
                  => call.err.kind = "mode"

\* C17: for output lines made of lines starting with "SEARCHING" or
\* "BUS INIT" followed by one payload line, parseOBDResponse returns the
\* frame (or the error) it returns for the payload line alone, and
\* RunOBDCommand leaves the command and returns the error as for the payload
\* line alone.
C17_TransientLinesIgnored ==
    call.fn = "parseOBDResponse" =>
        /\ call.parsed = parseOBDResponse(call.cmd, <<call.payload>>)
        /\ call.parsed = NewResult(call.payload)
              \/ IsErr(ScanOutputs(<<call.payload>>).err)
        /\ call.ran = RunOBDCommand(call.cmd, Ok(<<call.payload>>))

\* C17 witness: a frame after a "BUS INIT" and a "SEARCHING" line was
\* decoded into the command's value
C17_Witness ==
    /\ call.fn = "parseOBDResponse"
    /\ call.transient = <<"BUS INIT: OK", "SEARCHING...">>
    /\ ~IsErr(call.parsed.err)
    /\ ~call.parsed.result.nil
    /\ ~IsErr(call.ran.err)
    /\ call.ran.cmd.Value # call.cmd.Value

\* bit `bit` of a 32-bit value written as four bytes, bit 31 being the
\* highest bit of the first byte and bit 0 the lowest bit of the last one
BitSet(value, bit) ==
    LET pos == 31 - bit
    IN  (value[(pos \div 8) + 1] \div (2 ^ (7 - (pos % 8)))) % 2 = 1

\* C18: a PartSupported of index i (1..7) supports no parameter ID outside
\* [(i-1)*32+1, i*32], and supports one inside exactly when bit (32*i - p)
\* of its value is set.
C18_SupportsPIDBit ==
    call.fn = "SupportsPID" =>
        LET i == call.part.index
        IN  /\ i \in 1..7
            /\ call.inRange = ((i - 1) * 32 + 1)..(i * 32)
            /\ \A pid \in Bytes :
                 pid \in call.supported
                    <=> /\ pid \in ((i - 1) * 32 + 1)..(i * 32)
                        /\ BitSet(call.part.Value, 32 * i - pid)
            /\ \A c \in Constructors(2) :
                 c.key \in call.commands <=> c.parameterID \in call.supported

\* C18 witness: a part of index 3 with one bit set in each byte supports
\* just the parameter IDs 0x48, 0x4F, 0x56 and 0x5D
C18_Witness ==
    /\ call.fn = "SupportsPID"
    /\ call.part.index = 3
    /\ call.part.Value = <<1, 2, 4, 8>>
    /\ call.supported = {72, 79, 86, 93}

\* the part of index 1 was asked with the value 0xBE1FA813
AskedBE1FA813 ==
    /\ call.fn = "SupportsPID"
    /\ call.part.index = 1
    /\ call.part.Value = <<190, 31, 168, 19>>

\* C19 (as stated): with the value 0xBE1FA813 the part of index 1 supports,
\* among the parameter IDs 0x01..0x20, exactly 0x01, 0x03, 0x04, 0x05, 0x06,
\* 0x07, 0x0D, 0x0E, 0x0F, 0x10, 0x11, 0x13, 0x15, 0x1C, 0x1F and 0x20.
C19_SupportedAsStated ==
    AskedBE1FA813
        => /\ call.supported \cap (1..32)
                = {1, 3, 4, 5, 6, 7, 13, 14, 15, 16, 17, 19, 21, 28, 31, 32}
           /\ call.listed \cap (1..32)
                = {1, 3, 4, 5, 6, 7, 13, 14, 15, 16, 17, 19, 21, 28, 31, 32}

\* C19 (amended): with the value 0xBE1FA813 the part of index 1 supports,
\* among the parameter IDs 0x01..0x20, exactly 0x01, 0x03, 0x04, 0x05, 0x06,
\* 0x07, 0x0C, 0x0D, 0x0E, 0x0F, 0x10, 0x11, 0x13, 0x15, 0x1C, 0x1F and
\* 0x20; the parameter IDs the test lists as supported and as unsupported
\* are answered so, 0x0C is in neither list.
C19_SupportedOfBE1FA813 ==
    AskedBE1FA813
        => /\ call.supported
                = {1, 3, 4, 5, 6, 7, 12, 13, 14, 15, 16, 17, 19, 21, 28, 31, 32}
           /\ {2, 8, 9, 10, 11, 18, 20, 22, 23, 24, 25, 26, 27, 29, 30}
                \cap call.supported = {}
           /\ call.listed \cap (1..32) = call.supported

\* C19 witness: the part of index 1 was given 0xBE1FA813 and supports the
\* parameter ID 0x0C (bit B4 of 0x1F)
C19_Witness ==
    /\ AskedBE1FA813
    /\ 12 \in call.supported
    /\ 13 \in call.supported
    /\ 11 \notin call.supported

\* C20: IsSupported is true for the parameter ID 0 whatever the table holds,
\* the empty table included; for a parameter ID p >= 1 it is true exactly
\* when the table has, at place ceil(p/32), the part of index ceil(p/32) and
\* bit (32*index - p) of that part's value is set; the bits of the other
\* parts do not count.
C20_IsSupported ==
    call.fn = "IsSupported" =>
        LET parts == call.sc.parts
        IN  /\ 0 \in call.supported
            /\ \A pid \in 1..255 :
                 LET index == (pid + 31) \div 32
                 IN  pid \in call.supported
                        <=> /\ index <= Len(parts)
                            /\ parts[index].index = index
                            /\ BitSet(parts[index].Value, 32 * index - pid)

\* C20 witness: of a table of three parts that have only their first and
\* their last bit set, the first and the last parameter ID of each part are
\* supported, and the parameter ID 0
C20_Witness ==
    /\ call.fn = "IsSupported"
    /\ Len(call.sc.parts) = 3
    /\ \A k \in 1..3 : /\ call.sc.parts[k].index = k
                       /\ call.sc.parts[k].Value = <<128, 0, 0, 1>>
    /\ call.supported = {0, 1, 32, 33, 64, 65, 96}

\* C21: GetPart(k) on a table of n parts gives the part at place k exactly
\* for 0 <= k < n and fails otherwise; GetPartByPID(0) gives the first part;
\* GetPartByPID(p), p >= 1, gives the one part whose range holds p, the part
\* of index ceil(p/32), and fails when the table has no such part.
C21_GetPartByPID ==
    call.fn = "GetPart" =>
        LET parts == call.sc.parts
            n == Len(parts)
        IN  /\ \A k \in DOMAIN call.got :
                 /\ ~IsErr(call.got[k].err) <=> k < n
                 /\ k < n => call.got[k].part = parts[k + 1]
            /\ n > 0 => call.byPID[0] = [part |-> parts[1], err |-> Nil]
            /\ \A pid \in 1..255 :
                 LET holders == {j \in 1..n : PIDInRange(parts[j], pid)}
                 IN  IF holders = {}
                     THEN IsErr(call.byPID[pid].err)
                     ELSE /\ ~IsErr(call.byPID[pid].err)
                          /\ PIDInRange(call.byPID[pid].part, pid)
                          /\ call.byPID[pid].part.index = (pid + 31) \div 32

\* C22: the result of FilterSupported holds exactly the commands of the
\* input for which IsSupported is true, each as often as it is in the input
\* and in the order of the input; the table and the commands are as before.
C22_FilterKeepsOrder ==
    call.fn = "FilterSupported" =>
        LET commands == call.commands
            keep == {k \in 1..Len(commands) :
                        IsSupported(call.sc, commands[k].parameterID)}
            nth(j) == CHOOSE k \in keep : Cardinality({i \in keep : i < k}) = j - 1
        IN  /\ Len(call.result) = Cardinality(keep)
            /\ \A j \in 1..Len(call.result) : call.result[j] = commands[nth(j)]
            /\ call.scAfter = call.sc
            /\ call.commandsAfter = call.commands

\* C22 witness: of three commands the second is not supported, the first
\* and the third are kept in that order
C22_Witness ==
    /\ call.fn = "FilterSupported"
    /\ Len(call.commands) = 3
    /\ ~IsSupported(call.sc, call.commands[2].parameterID)
    /\ call.result = <<call.commands[1], call.commands[3]>>
    /\ call.commands[1].parameterID # call.commands[3].parameterID

\* the least number of groups of four that hold `width`
CeilQuarter(width) ==
    CHOOSE m \in 0..64 : 4 * m >= width /\ 4 * m < width + 4

TwoHexDigits(token) ==
    /\ Len(token) = 2
    /\ \A k \in 1..2 : DigitValue(At(token, k)) >= 0

\* the tokens that are not empty, in their order
RECURSIVE NonEmpty(_)
NonEmpty(tokens) ==
    IF tokens = <<>> THEN <<>>
    ELSE IF Head(tokens) = "" THEN NonEmpty(Tail(tokens))
    ELSE <<Head(tokens)>> \o NonEmpty(Tail(tokens))

\* C24: HexLitsToBytes passes over the empty tokens and fails exactly when
\* another token is not made of two hex digits (a token of one or of three
\* characters, a token that is no hex); when it succeeds the result has one
\* byte for each token that is not empty, in order.
C24_HexLitsStrict ==
    call.fn = "HexLitsToBytes" =>
        LET tokens == NonEmpty(call.literals)
        IN  /\ IsErr(call.err)
                  <=> \E k \in 1..Len(tokens) : ~TwoHexDigits(tokens[k])
            /\ ~IsErr(call.err) =>
                  /\ Len(call.result) = Len(tokens)
                  /\ \A k \in 1..Len(tokens) :
                       call.result[k] = DigitValue(At(tokens[k], 1)) * 16
                                           + DigitValue(At(tokens[k], 2))

\* the number a sequence of at most three bytes stands for, the first byte
\* being the highest
RECURSIVE BigEndian(_)
BigEndian(bytes) ==
    IF bytes = <<>> THEN 0
    ELSE BigEndian(SubSeq(bytes, 1, Len(bytes) - 1)) * 256 + bytes[Len(bytes)]

\* C25: BytesToUint64 fails exactly for more than 8 bytes; for n <= 8 bytes
\* the result is the sum of b[k] * 256^(n-1-k): its digit of weight 256^m is
\* the byte b[n-1-m] for m < n and 0 above, whatever the highest bit of a
\* byte is; no bytes give 0, 0x7B gives 123 and 0x1A 0xF8 gives 6904.
C25_BytesToUint64BigEndian ==
    call.fn = "BytesToUint64" =>
        LET b == call.bytes
            n == Len(b)
        IN  /\ IsErr(call.err) <=> n > 8
            /\ n <= 8 =>
                 /\ \A m \in 0..7 :
                      call.res[8 - m] = IF m < n THEN b[n - m] ELSE 0
                 /\ n <= 3 =>
                      /\ \A j \in 1..5 : call.res[j] = 0
                      /\ BigEndian(SubSeq(call.res, 6, 8)) = BigEndian(b)
            /\ b = <<>> => call.res = Zero64
            /\ b = <<123>> => BigEndian(SubSeq(call.res, 6, 8)) = 123
            /\ b = <<26, 248>> => BigEndian(SubSeq(call.res, 6, 8)) = 6904

\* C25 witness: eight bytes 0xFF gave the value of all bits set, and the
\* call had no error
C25_Witness ==
    /\ call.fn = "BytesToUint64"
    /\ Len(call.bytes) = 8
    /\ call.bytes[1] = 255
    /\ call.res = <<255, 255, 255, 255, 255, 255, 255, 255>>
    /\ ~IsErr(call.err)

(***************************************************************************)
(* C26: the four temperature commands (coolant, intake air, ambient,       *)
(* engine oil) decode a one-byte payload b to the integer b - 40: the      *)
(* value lies in -40..215, 0x00 gives -40 and 0xFF gives 215.              *)
(***************************************************************************)
C26_TemperatureMinus40 ==
    (call.fn = "SetValue" /\ call.kind \in TemperatureKinds
        /\ Len(call.payload) = 1)
    => /\ call.err = Nil
       /\ call.cmd.Value = call.payload[1] - 40
       /\ call.cmd.Value \in -40..215
       /\ call.payload[1] = 0 => call.cmd.Value = -40
       /\ call.payload[1] = 255 => call.cmd.Value = 215

C26_Witness ==
    /\ call.fn = "SetValue" /\ call.kind = "EngineOilTemperature"
    /\ call.payload = <<255>> /\ call.err = Nil /\ call.cmd.Value = 215

C28_MonitorStatusFirstByte ==
    (call.fn = "SetValue" /\ call.kind = "MonitorStatus")
    => IF Len(call.payload) # 4
       THEN IsErr(call.err) /\ call.cmd.Value = call.before.Value
       ELSE LET b == call.payload[1]
            IN  /\ call.err = Nil
                /\ call.cmd.Value.MilActive = (b >= 128)
                /\ call.cmd.Value.DtcAmount = (IF b >= 128 THEN b - 128 ELSE b)
                /\ call.payload = <<255, 0, 0, 0>>
                      => call.cmd.Value = [MilActive |-> TRUE, DtcAmount |-> 127]

\* "41 01 FF 00 00 00" decoded over a command that held other fields
C28_Witness ==
    /\ call.fn = "SetValue" /\ call.kind = "MonitorStatus"
    /\ call.before.Value = [MilActive |-> TRUE, DtcAmount |-> 5]
    /\ call.payload = <<255, 0, 0, 0>> /\ call.err = Nil
    /\ call.cmd.Value = [MilActive |-> TRUE, DtcAmount |-> 127]

(***************************************************************************)
(* C29: for the clear-trouble-codes command (mode 0x04, parameter ID 0,    *)
(* data width 0) no payload is parsed and decoding always succeeds:        *)
(* whenever the exchange succeeds and the response holds no "UNABLE TO     *)
(* CONNECT" or "NO DATA" line, RunOBDCommand returns the command without   *)
(* an error, whatever the remaining response line contains, the bare       *)
(* reply "44" included.                                                    *)
(***************************************************************************)
NoRefusal(outputs) ==
    \A k \in 1..Len(outputs) :
        /\ ~HasPrefix(outputs[k], "UNABLE TO CONNECT")
        /\ ~HasPrefix(outputs[k], "NO DATA")

C29_ClearAlwaysSucceeds ==
    (call.fn = "RunOBDCommand" /\ call.command.kind = "ClearTroubleCodes"
        /\ call.command.modeId = 4 /\ call.command.parameterID = 0
        /\ call.command.dataWidth = 0
        /\ ~IsErr(call.replies[1].error)
        /\ NoRefusal(call.replies[1].outputs))
    => call.err = Nil /\ call.cmd = call.command

\* what the code does: the call succeeds when no line is left to parse
C29_ClearSucceedsWithoutLine ==
    (call.fn = "RunOBDCommand" /\ call.command.kind = "ClearTroubleCodes"
        /\ ~IsErr(call.replies[1].error)
        /\ NoRefusal(call.replies[1].outputs))
    => /\ call.cmd = call.command
       /\ call.err = Nil
            <=> ScanOutputs(call.replies[1].outputs).payload = ""

(***************************************************************************)
(* The text of an error, as fmt.Errorf makes it.  An error of the serial   *)
(* port is the port's own, made without the command: it is kept as the     *)
(* name of the port operation that failed.                                 *)
(***************************************************************************)
Error(e) ==
    CASE e.kind = "echo" ->
           "Write echo mismatch: \"" \o e.a \o "\" not suffix of \""
              \o e.b \o "\""
      [] e.kind = "empty" -> "No payload receieved"
      [] e.kind = "unable" ->
           "'UNABLE TO CONNECT' received, is the ignition on?"
      [] e.kind = "nodata" -> "'NO DATA' received, timeout from elm device?"
      [] e.kind = "literals" -> "Expected at least 3 OBD literals: " \o e.b
      [] e.kind = "parse" ->
           "strconv.ParseUint: parsing \"" \o e.b \o "\": invalid syntax"
      [] e.kind = "length" ->
           "Expected " \o e.a \o " bytes, found " \o e.b
      [] e.kind = "mode" -> "Expected mode echo " \o e.a \o ", got " \o e.b
      [] e.kind = "parameter" ->
           "Expected parameter echo " \o e.a \o " got " \o e.b
      [] e.kind = "payload" ->
           "Expected " \o e.a \o " bytes of payload, got " \o e.b
      [] OTHER -> e.kind

\* strings.Contains(text, sub)
Carries(text, sub) ==
    \E i \in 1..(Len(text) - Len(sub) + 1) :
        SubSeq(text, i, i + Len(sub) - 1) = sub

\* the kinds of error by the step that returns them
ExchangeKinds == {"flush", "write", "read", "echo", "empty"}
ParsingKinds == {"unable", "nodata", "literals", "parse"}
ValidationKinds == {"length", "mode", "parameter"}
DecodingKinds == {"payload"}

\* the command a recorded call ran, and the payload line it was given
CommandRun == IF call.fn = "SetValue" THEN call.before ELSE call.command

(***************************************************************************)
(* C30: every error returned by the exchange, frame parsing, validation    *)
(* and payload decoding steps carries both the expected and the actual     *)
(* bytes and the key of the command being run.                             *)
(***************************************************************************)
C30_ErrorsCarryKey ==
    (call.fn \in {"RunOBDCommand", "SetValue"} /\ IsErr(call.err))
    => /\ call.err.kind \in ExchangeKinds \cup ParsingKinds
                               \cup ValidationKinds \cup DecodingKinds
       /\ call.err.a # "" /\ Carries(Error(call.err), call.err.a)
       /\ call.err.b # "" /\ Carries(Error(call.err), call.err.b)
       /\ Carries(Error(call.err), CommandRun.key)

\* what the code does: the errors of validation and of payload decoding
\* carry the expected and the actual amount or byte, and no error carries
\* the key of the command
C30_ErrorsWithoutKey ==
    (call.fn \in {"RunOBDCommand", "SetValue"} /\ IsErr(call.err))
    => /\ call.err.kind \in ExchangeKinds \cup ParsingKinds
                               \cup ValidationKinds \cup DecodingKinds
       /\ call.err.kind \in ValidationKinds \cup DecodingKinds
            => /\ call.err.a # "" /\ Carries(Error(call.err), call.err.a)
               /\ call.err.b # "" /\ Carries(Error(call.err), call.err.b)
       /\ ~Carries(Error(call.err), CommandRun.key)

(***************************************************************************)
(* The bytes the first k Read calls delivered, the places of the Read      *)
(* calls that delivered a prompt byte and of those that ended with one     *)
(***************************************************************************)
RECURSIVE Accumulated(_, _)
Accumulated(reads, k) ==
    IF k = 0 THEN "" ELSE Accumulated(reads, k - 1) \o reads[k].bytes

HasPrompt(bytes) == \E i \in 1..Len(bytes) : At(bytes, i) = ">"
EndsWithPrompt(bytes) == Len(bytes) > 0 /\ At(bytes, Len(bytes)) = ">"

\* every Read up to the k-th delivered at least one byte
AllDelivered(reads, k) ==
    \A j \in 1..k : ~reads[j].failed /\ Len(reads[j].bytes) > 0

(***************************************************************************)
(* C31: the poll-read loop stops as soon as the terminator byte '>' has    *)
(* appeared in the bytes read, whatever its position inside the chunk that *)
(* delivered it, and the response handed to line processing is exactly the *)
(* accumulated bytes with the prompt byte stripped.                        *)
(***************************************************************************)
C31_StopsAtPrompt ==
    call.fn = "read"
    => \A k \in 1..Len(call.reads) :
          (/\ AllDelivered(call.reads, k)
           /\ HasPrompt(call.reads[k].bytes)
           /\ \A j \in 1..(k - 1) : ~HasPrompt(call.reads[j].bytes))
          => /\ call.status = "done"
             /\ call.polls = k
             /\ call.buffer \o ">" = Accumulated(call.reads, k)

\* what the code does: the loop stops at the first chunk whose last byte is
\* the prompt
C31_StopsAtChunkEnd ==
    call.fn = "read"
    => \A k \in 1..Len(call.reads) :
          (/\ AllDelivered(call.reads, k)
           /\ EndsWithPrompt(call.reads[k].bytes)
           /\ \A j \in 1..(k - 1) : ~EndsWithPrompt(call.reads[j].bytes))
          => /\ call.status = "done"
             /\ call.polls = k
             /\ call.buffer \o ">" = Accumulated(call.reads, k)

(***************************************************************************)
(* C32: after the echo line is dropped the remaining lines are trimmed and *)
(* the empty ones dropped, and when none remains the exchange fails with   *)
(* an empty-payload error.  So, for a single caller, every successful      *)
(* RunCommand result has a non-empty output list in which no line is       *)
(* empty, and the outputs[0] accesses of SetAutomaticProtocol, GetVersion, *)
(* GetVoltage and Reset are in bounds.                                     *)
(***************************************************************************)
NoEmptyLine(outputs) ==
    /\ Len(outputs) >= 1
    /\ \A k \in 1..Len(outputs) : outputs[k] # ""

\* a read of this call went through line processing without an error
ReadLines(c) ==
    /\ pc[c] = "out" /\ io[c].reads /\ ~io[c].rfail
    /\ err[c].kind \notin {"echo", "empty"}

C32_OutputsNeverEmpty ==
    /\ (res.op = "run" /\ ~IsErr(res.error)) => NoEmptyLine(res.outputs)
    /\ ReadLines(SingleCaller) => NoEmptyLine(devOutputs)

\* a successful result whose response had an empty line after its only line
C32_Witness ==
    /\ res.op = "run" /\ ~IsErr(res.error)
    /\ res.outputs = <<"OK">>
    /\ devInput = "AT@1"

(***************************************************************************)
(* C33: PayloadAsByte, PayloadAsUInt16, PayloadAsUInt32 and                *)
(* PayloadAsUInt64 succeed only when the frame carries exactly 1, 2, 4 and *)
(* 8 payload bytes after the two control bytes, and then return the        *)
(* big-endian value of those bytes ("41 0C FF B2": 0xFFB2 = 65458); with   *)
(* any other payload length they fail and return 0.                        *)
(***************************************************************************)
C33_HelpersAssertWidth ==
    call.fn = "PayloadAs"
    => LET payload == SubSeq(call.value, 3, Len(call.value))
           zero == CASE call.width = 4 -> <<0, 0, 0, 0>>
                     [] call.width = 8 -> <<0, 0, 0, 0, 0, 0, 0, 0>>
                     [] OTHER -> 0
       IN  IF Len(payload) = call.width
           THEN /\ call.err = Nil
                /\ call.v = CASE call.width = 1 -> payload[1]
                              [] call.width = 2 -> payload[1] * 256 + payload[2]
                              [] OTHER -> payload
                /\ call.value = <<65, 12, 255, 178>> => call.v = 65458
           ELSE IsErr(call.err) /\ call.v = zero

C33_Witness ==
    /\ call.fn = "PayloadAs" /\ call.width = 2
    /\ call.value = <<65, 12, 255, 178>>
    /\ call.err = Nil /\ call.v = 65458

(***************************************************************************)
(* C34: with two or more concurrent RunCommand callers on the same         *)
(* RealDevice, the outputs and the error of each returned result are those *)
(* of that caller's own exchange: from the end of its exchange until its   *)
(* result is filled dev.outputs is not changed by another caller, and a    *)
(* successful result never has an output list emptied by another caller's  *)
(* failure.                                                                *)
(***************************************************************************)
\* caller c has released the mutex and not yet copied dev.outputs
HasToCopy(c) == pc[c] = "ret" /\ op[c] = "run"

C34_OwnOutputs ==
    /\ [][\A c \in Callers : (HasToCopy(c) /\ ~IsErr(err[c]))
                                => devOutputs' = devOutputs]_vars
    /\ []((res.op = "run" /\ ~IsErr(res.error)) => NoEmptyLine(res.outputs))

\* what the code does keep: the error of a result is the caller's own, and
\* nobody changes dev.outputs while a caller holds the mutex but the holder
C34_OwnError ==
    [][\A c \in Callers :
          /\ (HasToCopy(c) /\ pc'[c] = "idle") => res'.error = err[c]
          /\ (mutex = c /\ devOutputs' # devOutputs) => pc[c] = "read"]_vars

FrameStored ==
    LET parsed == parseOBDResponse(call.command, call.replies[1].outputs)
    IN  /\ ~IsErr(parsed.err) /\ ~parsed.result.nil
        /\ Validate(parsed.result, call.command) = Nil
        /\ SetValue(call.command, parsed.result) =
              [err |-> Nil, cmd |-> call.cmd]

C36_SuccessOnlyWithFrame ==
    (call.fn = "RunOBDCommand" /\ call.command.dataWidth > 0
        /\ call.err = Nil)
    => FrameStored

\* what the code does: success with a stored frame, or with no payload line
\* at all and the command as it was
C36_SuccessWithoutLine ==
    (call.fn = "RunOBDCommand" /\ call.command.dataWidth > 0
        /\ call.err = Nil)
    => \/ FrameStored
       \/ /\ ScanOutputs(call.replies[1].outputs) = [err |-> Nil, payload |-> ""]
          /\ call.cmd = call.command

(***************************************************************************)
(* C37: a Read of the stream that returns zero bytes and no error during   *)
(* the poll-read loop is harmless: the loop indexes no byte before the     *)
(* start of the chunk and keeps polling, and the exchange still ends as a  *)
(* normal success or a returned error with the mutex released.             *)
(***************************************************************************)
C37_ZeroReadHarmless ==
    /\ ~crashed
    /\ \A c \in Callers : pc[c] # "panic"

\* what the code does, in read() on its own: the loop panics exactly at a
\* Read that returned no byte and no error
C37_PanicAtZeroRead ==
    call.fn = "read"
    => /\ (call.status = "panic") = (call.polls >= 1
                                       /\ call.reads[call.polls] = NoByte)
       /\ \A k \in 1..Len(call.reads) :
             (call.reads[k] = NoByte /\ AllDelivered(call.reads, k - 1)
                /\ \A j \in 1..(k - 1) : ~EndsWithPrompt(call.reads[j].bytes))
             => call.status = "panic" /\ call.polls = k

(***************************************************************************)
(* C38: for every built-in command constructor the declared data width     *)
(* equals the payload width its SetValue demands (1 for PayloadAsByte, 2   *)
(* for PayloadAsUInt16, 4 for PayloadAsUInt32 and monitor status), so a    *)
(* frame that passes Validate for the command is never rejected by its     *)
(* SetValue for having the wrong width; this includes RuntimeSinceStart,   *)
(* which decodes a 2-byte payload.                                         *)
(***************************************************************************)
C38_DeclaredWidthDemanded ==
    call.fn = "SetValueBuiltIn"
    => /\ call.declared = call.demanded
       /\ call.valid = Nil => call.set = Nil

\* what the code does: the widths agree for every constructor but the
\* RuntimeSinceStart of src/commands.go
C38_AllButRuntimeSinceStart ==
    (call.fn = "SetValueBuiltIn"
        /\ ~(call.file = "commands.go"
               /\ call.key = "runtime_since_engine_start"))
    => /\ call.declared = call.demanded
       /\ call.valid = Nil => call.set = Nil
====
